---------------------------- MODULE Spec2Model ----------------------------
(***************************************************************************)
(* The discover/execute protocol of the two Geotab MCP servers:            *)
(*   "server" : geotab-mcp-server (mcp_server/server.py, operations.py,    *)
(*              geotab_api/client.py)                                      *)
(*   "docker" : mcp/server.py with geotab-mcp-docker (mcp/operations.py,   *)
(*              mcp/models.py, geotab/client.py)                           *)
(* One deployment runs one variant.  A call on /mcp is one atomic step:    *)
(* the handlers are coroutines that never suspend after the body is read.  *)
(***************************************************************************)
EXTENDS Integers, Sequences, FiniteSets, TLC

VARIABLES variant, client, clock, pc, request, response, trace, table, loaded

vars == <<variant, client, clock, pc, request, response, trace, table, loaded>>

(***************************************************************************)
(* Bounds of the model.                                                    *)
(***************************************************************************)
MaxRecords == 2
MaxTick == 1
MaxClock == 2
MaxStops == 1
MaxTable == 3

HoursPerDay == 24

(***************************************************************************)
(* JSON values as they arrive in a request body.                           *)
(***************************************************************************)
Str(s) == [tag |-> "str", s |-> s, n |-> 0]
Num(n) == [tag |-> "num", s |-> "", n |-> n]
Bool(b) == [tag |-> "bool", s |-> "", n |-> IF b THEN 1 ELSE 0]
Null == [tag |-> "null", s |-> "", n |-> 0]
List1 == [tag |-> "list", s |-> "", n |-> 1]
Absent == [tag |-> "absent", s |-> "", n |-> 0]

\* Python truth value of a JSON value (bool(v)).
Truthy(v) ==
    CASE v.tag = "bool" -> v.n = 1
      [] v.tag = "num" -> v.n # 0
      [] v.tag = "str" -> v.s # ""
      [] v.tag = "list" -> v.n > 0
      [] OTHER -> FALSE

\* What a Python call yields: a value or a raised exception.
Return(v) == [raised |-> FALSE, value |-> v]
Raise(exc, msg) == [raised |-> TRUE, exc |-> exc, msg |-> msg]

\* Exception classes met in the code; all derive from Exception.
\* pydantic's ValidationError and json's JSONDecodeError derive from ValueError.
IsInstance(exc, cls) ==
    \/ cls = "Exception"
    \/ exc = cls
    \/ cls = "ValueError" /\ exc \in {"ValidationError", "JSONDecodeError"}

\* dict.get(key, default) on a parameters mapping.
Get(parameters, key, default) ==
    IF key \in DOMAIN parameters THEN parameters[key] ELSE default

\* Strings Python's float() parses, with their value.
NumericStrings == [s \in {"0", "1", "2", "3", "7"} |->
    CASE s = "0" -> 0 [] s = "1" -> 1 [] s = "2" -> 2 [] s = "3" -> 3 [] s = "7" -> 7]

\* float(v): numbers and booleans convert, numeric strings parse, other strings
\* raise ValueError, None and lists raise TypeError.
PyFloat(v) ==
    CASE v.tag = "num" -> Return(v.n)
      [] v.tag = "bool" -> Return(v.n)
      [] v.tag = "str" ->
            IF v.s \in DOMAIN NumericStrings
            THEN Return(NumericStrings[v.s])
            ELSE Raise("ValueError", "could not convert string to float: '" \o v.s \o "'")
      [] OTHER -> Raise("TypeError", "float() argument must be a string or a real number")

\* timedelta(days=v) / timedelta(hours=v): only numbers (bool is an int) are
\* accepted; the value is the length in hours.
Timedelta(v, unit) ==
    IF v.tag \in {"num", "bool"}
    THEN Return(v.n * unit)
    ELSE Raise("TypeError", "unsupported type for timedelta " \o
               (IF unit = 1 THEN "hours" ELSE "days") \o " component: " \o v.tag)

(***************************************************************************)
(* mcp/models.py and mcp_server/models.py: the pydantic models.            *)
(***************************************************************************)
MCP_VERSION == "0.1.0"

\* Fault: a parameter model whose default field defaults to False.
Fault_DefaultFalse(kw) ==
    [name |-> kw.name,
     type |-> kw.type,
     description |-> kw.description,
     required |-> IF "required" \in DOMAIN kw THEN kw.required ELSE FALSE,
     default |-> IF "default" \in DOMAIN kw THEN kw.default ELSE Bool(FALSE)]

\* MCPParameter(**kw): required defaults to False, default to None.
MCPParameter(kw) ==
    [name |-> kw.name,
     type |-> kw.type,
     description |-> kw.description,
     required |-> IF "required" \in DOMAIN kw THEN kw.required ELSE FALSE,
     default |-> IF "default" \in DOMAIN kw THEN kw.default ELSE Null]

\* MCPOperation(**kw): parameters defaults to the empty list.
MCPOperation(kw) ==
    [name |-> kw.name,
     description |-> kw.description,
     parameters |-> IF "parameters" \in DOMAIN kw
                    THEN [i \in 1..Len(kw.parameters) |-> MCPParameter(kw.parameters[i])]
                    ELSE <<>>,
     returns |-> kw.returns]

\* .dict() of an MCPOperation: every field, parameters as dicts, in order.
OperationDict(op) ==
    [name |-> op.name,
     description |-> op.description,
     parameters |-> [i \in 1..Len(op.parameters) |->
                        [name |-> op.parameters[i].name,
                         type |-> op.parameters[i].type,
                         description |-> op.parameters[i].description,
                         required |-> op.parameters[i].required,
                         default |-> op.parameters[i].default]],
     returns |-> op.returns]

\* MCPDiscoverResponse(version=..., operations=...).dict()
MCPDiscoverResponse(version, operations) ==
    [type |-> "discover",
     version |-> version,
     operations |-> [i \in 1..Len(operations) |-> OperationDict(operations[i])]]

\* MCPExecuteResponse(version=..., operation=..., result=...).dict()
MCPExecuteResponse(version, operation, result) ==
    [type |-> "execute", version |-> version, operation |-> operation, result |-> result]

\* Fault: an error model whose details default to a message instead of None.
Fault_DetailsFilled(version, error, details) ==
    [type |-> "error", version |-> version, error |-> error,
     details |-> IF details = Null THEN [message |-> error] ELSE details]

\* MCPErrorResponse(version=..., error=..., details=...).dict()
MCPErrorResponse(version, error, details) ==
    [type |-> "error", version |-> version, error |-> error, details |-> details]

\* pydantic's validation of a `str` field: strings pass, numbers are coerced,
\* a missing field, null or a container is a validation error.
StrFieldOk(v) == v.tag \in {"str", "num", "bool"}

\* The str a `str` field holds after pydantic's coercion (str(v) of a number).
PyStr(v) ==
    CASE v.tag = "str" -> v.s
      [] v.tag = "bool" -> IF v.n = 1 THEN "True" ELSE "False"
      [] v.tag = "num" ->
            IF \E s \in DOMAIN NumericStrings : NumericStrings[s] = v.n
            THEN CHOOSE s \in DOMAIN NumericStrings : NumericStrings[s] = v.n
            ELSE "<number>"
      [] OTHER -> "None"

\* pydantic's validation of `parameters: Dict[str, Any]` with default_factory=dict.
DictFieldOk(p) == p.tag \in {"absent", "dict"}

\* The parameters the model carries: the mapping given, or the default {}.
ParametersOf(p) == IF p.tag = "dict" THEN p.map ELSE <<>>

\* MCPDiscoverRequest(**body): type and version are required str fields.
MCPDiscoverRequest(body) ==
    IF StrFieldOk(body.type) /\ StrFieldOk(body.version)
    THEN Return([type |-> PyStr(body.type), version |-> PyStr(body.version)])
    ELSE Raise("ValidationError", "validation error for MCPDiscoverRequest")

\* Fault: an execute request model whose operation field is optional.
Fault_OperationOptional(body) ==
    IF /\ StrFieldOk(body.type) /\ StrFieldOk(body.version)
       /\ DictFieldOk(body.parameters)
    THEN Return([type |-> PyStr(body.type), version |-> PyStr(body.version),
                 operation |-> PyStr(body.operation),
                 parameters |-> ParametersOf(body.parameters)])
    ELSE Raise("ValidationError", "validation error for MCPExecuteRequest")

\* MCPExecuteRequest(**body): type, version, operation required; parameters a dict.
MCPExecuteRequest(body) ==
    IF /\ StrFieldOk(body.type) /\ StrFieldOk(body.version)
       /\ StrFieldOk(body.operation) /\ DictFieldOk(body.parameters)
    THEN Return([type |-> PyStr(body.type), version |-> PyStr(body.version),
                 operation |-> PyStr(body.operation),
                 parameters |-> ParametersOf(body.parameters)])
    ELSE Raise("ValidationError", "validation error for MCPExecuteRequest")

(***************************************************************************)
(* The operation catalogs.                                                 *)
(***************************************************************************)
\* geotab-mcp-docker/mcp/operations.py: OPERATIONS
Docker_OPERATIONS == <<
    MCPOperation([
        name |-> "get_devices",
        description |-> "Get a list of all devices in the Geotab account",
        parameters |-> <<
            [name |-> "include_inactive", type |-> "boolean",
             description |-> "Whether to include inactive devices",
             required |-> FALSE, default |-> Bool(FALSE)] >>,
        returns |-> "List of devices with their properties and status"]),
    MCPOperation([
        name |-> "get_device_location",
        description |-> "Get the current location of a specific device",
        parameters |-> <<
            [name |-> "device_id", type |-> "string",
             description |-> "ID of the device to get location for",
             required |-> TRUE] >>,
        returns |-> "Current location information including coordinates, speed, and address"]),
    MCPOperation([
        name |-> "get_trips",
        description |-> "Get trip data for a specific device within a time range",
        parameters |-> <<
            [name |-> "device_id", type |-> "string",
             description |-> "ID of the device to get trips for",
             required |-> TRUE],
            [name |-> "days", type |-> "number",
             description |-> "Number of days to look back from current time",
             required |-> FALSE, default |-> Num(1)],
            [name |-> "include_stops", type |-> "boolean",
             description |-> "Whether to include stop information",
             required |-> FALSE, default |-> Bool(FALSE)] >>,
        returns |-> "List of trips with start/end locations, distance, and other metrics"]),
    MCPOperation([
        name |-> "get_fault_data",
        description |-> "Get fault codes and diagnostic data for a device",
        parameters |-> <<
            [name |-> "device_id", type |-> "string",
             description |-> "ID of the device to get fault data for",
             required |-> TRUE],
            [name |-> "days", type |-> "number",
             description |-> "Number of days to look back from current time",
             required |-> FALSE, default |-> Num(7)],
            [name |-> "active_only", type |-> "boolean",
             description |-> "Whether to include only active faults",
             required |-> FALSE, default |-> Bool(FALSE)] >>,
        returns |-> "List of fault codes with diagnostic information"]),
    MCPOperation([
        name |-> "get_status_data",
        description |-> "Get status data for a device",
        parameters |-> <<
            [name |-> "device_id", type |-> "string",
             description |-> "ID of the device to get status data for",
             required |-> TRUE],
            [name |-> "diagnostic_id", type |-> "string",
             description |-> "ID of the diagnostic to filter by",
             required |-> FALSE, default |-> Null],
            [name |-> "hours", type |-> "number",
             description |-> "Number of hours to look back from current time",
             required |-> FALSE, default |-> Num(1)] >>,
        returns |-> "List of status data points with timestamp and values"]) >>

\* geotab-mcp-docker/mcp/operations.py: OPERATION_HANDLERS, in insertion order
\* Fault: a handler table without an entry for get_status_data.
Fault_MissingHandler ==
    <<"get_devices", "get_device_location", "get_trips", "get_fault_data">>

Docker_OPERATION_HANDLERS ==
    <<"get_devices", "get_device_location", "get_trips", "get_fault_data",
      "get_status_data">>

\* geotab-mcp-server/mcp_server/server.py: OPERATIONS
Server_OPERATIONS == <<
    MCPOperation([
        name |-> "get_device_info",
        description |-> "Get information about all devices in the Geotab account",
        parameters |-> <<
            [name |-> "include_inactive", type |-> "boolean",
             description |-> "Whether to include inactive devices in the results",
             required |-> FALSE, default |-> Bool(FALSE)] >>,
        returns |-> "A list of devices with their properties and status information"]),
    MCPOperation([
        name |-> "get_device_location",
        description |-> "Get the current location of a specific device",
        parameters |-> <<
            [name |-> "device_id", type |-> "string",
             description |-> "ID of the device to get location for",
             required |-> TRUE] >>,
        returns |-> "Current location information including coordinates, speed, and address"]),
    MCPOperation([
        name |-> "get_trip_data",
        description |-> "Get trip data for a specific device within a time range",
        parameters |-> <<
            [name |-> "device_id", type |-> "string",
             description |-> "ID of the device to get trip data for",
             required |-> TRUE],
            [name |-> "days", type |-> "integer",
             description |-> "Number of days to look back from current time",
             required |-> FALSE, default |-> Num(1)] >>,
        returns |-> "List of trips with start/end locations, distance, duration, and other metrics"]),
    MCPOperation([
        name |-> "get_fault_data",
        description |-> "Get fault codes and diagnostic data for a device",
        parameters |-> <<
            [name |-> "device_id", type |-> "string",
             description |-> "ID of the device to get fault data for",
             required |-> TRUE],
            [name |-> "days", type |-> "integer",
             description |-> "Number of days to look back from current time",
             required |-> FALSE, default |-> Num(7)],
            [name |-> "active_only", type |-> "boolean",
             description |-> "Whether to include only active faults",
             required |-> FALSE, default |-> Bool(FALSE)] >>,
        returns |-> "List of fault codes with diagnostic information, timestamps, and status"]) >>

\* geotab-mcp-server/mcp_server/operations.py: GeotabOperations.operation_map,
\* in insertion order
Server_operation_map ==
    <<"get_device_info", "get_device_location", "get_trip_data", "get_fault_data">>

\* The catalog a variant advertises and the names it has handlers for.
Catalog(v) == IF v = "server" THEN Server_OPERATIONS ELSE Docker_OPERATIONS
HandlerNames(v) == IF v = "server" THEN Server_operation_map ELSE Docker_OPERATION_HANDLERS
Range(seq) == {seq[i] : i \in 1..Len(seq)}
CatalogNames(v) == {Catalog(v)[i].name : i \in 1..Len(Catalog(v))}

\* The name map built at import: a dict comprehension over the table, in
\* which a later entry takes the key of an earlier one of the same name.
LastNamed(operations, name) ==
    CHOOSE i \in 1..Len(operations) :
        /\ operations[i].name = name
        /\ \A j \in (i + 1)..Len(operations) : operations[j].name # name
OPERATION_MAP(operations) ==
    [name \in {operations[i].name : i \in 1..Len(operations)} |->
        operations[LastNamed(operations, name)]]

(***************************************************************************)
(* The vendor API (mygeotab) is outside the repository.  A script fixes    *)
(* what each vendor call of one data-source method does:                   *)
(*   auth  : authenticate()      "ok", or the exception class it raises    *)
(*   get   : the entity query    "ok" (returning data), or the exception   *)
(*   data  : the records returned, each with its `active` flag             *)
(*   addr  : reverse geocoding   "nocoords" (no coordinates, no call),     *)
(*           "ok", or the exception class it raises                        *)
(*   stops : the NonTripActivity query, "ok" (returning nstops records)    *)
(*           or the exception class it raises                              *)
(* "skip" stands for a call the method does not make.                      *)
(***************************************************************************)
VendorMessage == "vendor failure"

\* One call on the vendor API, and whether the client held a session then.
VCall(api, entity, outcome, authed) ==
    [api |-> api, entity |-> entity, outcome |-> outcome, authed |-> authed]

\* What a data-source method yields: value or exception, the client's state
\* after it, and the vendor calls it made.
DsReturn(value, c, vendor) ==
    [raised |-> FALSE, value |-> value, client |-> c, vendor |-> vendor]
DsRaise(exc, c, vendor) ==
    [raised |-> TRUE, exc |-> exc, msg |-> VendorMessage, client |-> c, vendor |-> vendor]

\* A record as a client method formats it: the fields the handlers read.
Formatted(kind, raw) == [kind |-> kind, active |-> raw.active]
FormatAll(kind, data) == [i \in 1..Len(data) |-> Formatted(kind, data[i])]

(***************************************************************************)
(* Operators named ..._on take the result of the call made first as their  *)
(* first parameter and model the rest of the same function.                *)
(***************************************************************************)

(***************************************************************************)
(* geotab-mcp-server/geotab_api/client.py                                  *)
(***************************************************************************)
\* GeotabClient.authenticate: only MyGeotabException is caught.
Server_authenticate_on(call, c, script) ==
    CASE script.auth = "ok" ->
            DsReturn(TRUE, [api |-> TRUE, authed |-> TRUE], <<call>>)
      [] script.auth = "MyGeotabException" ->
            DsReturn(FALSE, [api |-> TRUE, authed |-> FALSE], <<call>>)
      [] OTHER ->
            DsRaise(script.auth, [api |-> TRUE, authed |-> c.authed], <<call>>)

Server_authenticate(c, script) ==
    Server_authenticate_on(VCall("authenticate", "", script.auth, c.authed), c, script)

\* Fault: ensure_authenticated authenticating on every call.
Fault_AlwaysAuthenticate(c, script) == Server_authenticate(c, script)

\* GeotabClient.ensure_authenticated
Server_ensure_authenticated(c, script) ==
    IF ~c.authed \/ ~c.api
    THEN Server_authenticate(c, script)
    ELSE DsReturn(TRUE, c, <<>>)

\* The vendor query of a method, once ensure_authenticated has returned
\* `auth`: self.client.get(entity, ...) inside try / except MyGeotabException.
Server_query_get(auth, call, script, kind) ==
    CASE script.get = "ok" ->
            DsReturn(FormatAll(kind, script.data), auth.client, Append(auth.vendor, call))
      [] script.get = "MyGeotabException" ->
            DsReturn(<<>>, auth.client, Append(auth.vendor, call))
      [] OTHER ->
            DsRaise(script.get, auth.client, Append(auth.vendor, call))

Server_query_on(auth, script, entity, kind) ==
    IF auth.raised THEN auth
    ELSE IF ~auth.value THEN DsReturn(<<>>, auth.client, auth.vendor)
    ELSE Server_query_get(auth, VCall("get", entity, script.get, auth.client.authed),
                          script, kind)

\* The query shared by get_devices, get_trip_data and get_fault_data.
Server_query(c, script, entity, kind) ==
    Server_query_on(Server_ensure_authenticated(c, script), script, entity, kind)

\* GeotabClient.get_devices
Server_get_devices(c, script) == Server_query(c, script, "Device", "device")

\* GeotabClient.get_trip_data
Server_get_trip_data(c, script) == Server_query(c, script, "Trip", "trip")

\* GeotabClient.get_fault_data
Server_client_get_fault_data(c, script) == Server_query(c, script, "FaultData", "fault")

\* GeotabClient._get_address_from_coordinates: without a session or without
\* coordinates no call is made; MyGeotabException gives None.
Server_get_address_call(auth, call, script) ==
    CASE script.addr = "ok" ->
            DsReturn(Str("address"), auth.client, Append(auth.vendor, call))
      [] script.addr = "MyGeotabException" ->
            DsReturn(Null, auth.client, Append(auth.vendor, call))
      [] OTHER ->
            DsRaise(script.addr, auth.client, Append(auth.vendor, call))

Server_get_address_on(auth, script) ==
    IF auth.raised THEN auth
    ELSE IF ~auth.value \/ script.addr = "nocoords"
    THEN DsReturn(Null, auth.client, auth.vendor)
    ELSE Server_get_address_call(auth,
            VCall("call", "GetAddressForCoordinate", script.addr, auth.client.authed),
            script)

Server_get_address_from_coordinates(c, script) ==
    Server_get_address_on(Server_ensure_authenticated(c, script), script)

\* GeotabClient.get_device_location, from the status record on: the address
\* look-up, inside the method's try / except MyGeotabException.
Server_location_address(addr, vendor, device_id) ==
    IF addr.raised
    THEN IF addr.exc = "MyGeotabException"
         THEN DsReturn(Null, addr.client, vendor \o addr.vendor)
         ELSE DsRaise(addr.exc, addr.client, vendor \o addr.vendor)
    ELSE DsReturn([tag |-> "location", device_id |-> device_id, address |-> addr.value],
                  addr.client, vendor \o addr.vendor)

Server_location_get(auth, vendor, script, device_id) ==
    CASE script.get = "ok" ->
            IF script.data = <<>>
            THEN DsReturn(Null, auth.client, vendor)
            ELSE Server_location_address(
                    Server_get_address_from_coordinates(auth.client, script),
                    vendor, device_id)
      [] script.get = "MyGeotabException" ->
            DsReturn(Null, auth.client, vendor)
      [] OTHER ->
            DsRaise(script.get, auth.client, vendor)

Server_location_on(auth, script, device_id) ==
    IF auth.raised THEN auth
    ELSE IF ~auth.value THEN DsReturn(Null, auth.client, auth.vendor)
    ELSE Server_location_get(auth,
            Append(auth.vendor,
                   VCall("get", "DeviceStatusInfo", script.get, auth.client.authed)),
            script, device_id)

\* GeotabClient.get_device_location: None without a session, on a vendor
\* MyGeotabException and when no status record comes back.
Server_client_get_device_location(c, script, device_id) ==
    Server_location_on(Server_ensure_authenticated(c, script), script, device_id)

(***************************************************************************)
(* geotab-mcp-docker/geotab/client.py                                      *)
(***************************************************************************)
\* GeotabClient.authenticate: session_id is set only on success.
Docker_authenticate_on(call, c, script) ==
    CASE script.auth = "ok" ->
            DsReturn(TRUE, [api |-> TRUE, authed |-> TRUE], <<call>>)
      [] script.auth = "MyGeotabException" ->
            DsReturn(FALSE, [api |-> TRUE, authed |-> c.authed], <<call>>)
      [] OTHER ->
            DsRaise(script.auth, [api |-> TRUE, authed |-> c.authed], <<call>>)

Docker_authenticate(c, script) ==
    Docker_authenticate_on(VCall("authenticate", "", script.auth, c.authed), c, script)

\* Fault: ensure_authenticated opening a new session on every call.
Fault_SessionNotKept(c, script) == Docker_authenticate(c, script)

\* GeotabClient.ensure_authenticated
Docker_ensure_authenticated(c, script) ==
    IF ~c.api \/ ~c.authed
    THEN Docker_authenticate(c, script)
    ELSE DsReturn(TRUE, c, <<>>)

\* The vendor query of a method, once ensure_authenticated has returned
\* `auth`: self.api.get(entity, search=...) inside try / except MyGeotabException.
Docker_query_get(auth, call, script, kind) ==
    CASE script.get = "ok" ->
            DsReturn(FormatAll(kind, script.data), auth.client, Append(auth.vendor, call))
      [] script.get = "MyGeotabException" ->
            DsReturn(<<>>, auth.client, Append(auth.vendor, call))
      [] OTHER ->
            DsRaise(script.get, auth.client, Append(auth.vendor, call))

\* Fault: the query made although ensure_authenticated returned False.
Fault_QueryRegardless(auth, script, entity, kind) ==
    IF auth.raised THEN auth
    ELSE Docker_query_get(auth, VCall("get", entity, script.get, auth.client.authed),
                          script, kind)

Docker_query_on(auth, script, entity, kind) ==
    IF auth.raised THEN auth
    ELSE IF ~auth.value THEN DsReturn(<<>>, auth.client, auth.vendor)
    ELSE Docker_query_get(auth, VCall("get", entity, script.get, auth.client.authed),
                          script, kind)

\* The query shared by get_devices, get_fault_data and get_status_data.
Docker_query(c, script, entity, kind) ==
    Docker_query_on(Docker_ensure_authenticated(c, script), script, entity, kind)

\* GeotabClient.get_devices
Docker_get_devices(c, script, include_inactive) ==
    Docker_query(c, script, "Device", "device")

\* GeotabClient.get_fault_data
Docker_client_get_fault_data(c, script, include_inactive) ==
    Docker_query(c, script, "FaultData", "fault")

\* GeotabClient.get_status_data
Docker_client_get_status_data(c, script, diagnostic_id) ==
    Docker_query(c, script, "StatusData", "status")

\* The reverse-geocoding calls made for n records, k look-ups each: none
\* without coordinates; a raising look-up ends its record's try block.
AddressCallCount(n, k, addr) ==
    IF addr = "nocoords" THEN 0 ELSE IF addr = "ok" THEN n * k ELSE n
AddressCalls(n, k, addr) ==
    [i \in 1..AddressCallCount(n, k, addr) |->
        VCall("call", "GetAddressFromCoordinates", addr, TRUE)]

\* GeotabClient.get_device_location: the address look-up swallows every
\* exception.
Docker_location_get(auth, vendor, script, device_id) ==
    CASE script.get = "ok" ->
            IF script.data = <<>>
            THEN DsReturn(Null, auth.client, vendor)
            ELSE DsReturn([tag |-> "location", device_id |-> device_id,
                           address |-> IF script.addr = "ok" THEN Str("address") ELSE Null],
                          auth.client, vendor \o AddressCalls(1, 1, script.addr))
      [] script.get = "MyGeotabException" ->
            DsReturn(Null, auth.client, vendor)
      [] OTHER ->
            DsRaise(script.get, auth.client, vendor)

Docker_location_on(auth, script, device_id) ==
    IF auth.raised THEN auth
    ELSE IF ~auth.value THEN DsReturn(Null, auth.client, auth.vendor)
    ELSE Docker_location_get(auth,
            Append(auth.vendor,
                   VCall("get", "DeviceStatusInfo", script.get, auth.client.authed)),
            script, device_id)

Docker_client_get_device_location(c, script, device_id) ==
    Docker_location_on(Docker_ensure_authenticated(c, script), script, device_id)

\* GeotabClient.get_trips, after the trips came back: the stops when
\* include_non_trip_data is true; a MyGeotabException of the stops query is
\* swallowed, any other exception of it leaves the method.
Docker_trips_stops(trips, stops, tripCalls, stopCall, c, script, include_non_trip_data) ==
    IF ~Truthy(include_non_trip_data)
    THEN DsReturn(trips, c, tripCalls)
    ELSE CASE script.stops = "ok" ->
                DsReturn(trips \o stops, c,
                         Append(tripCalls, stopCall)
                            \o AddressCalls(script.nstops, 1, script.addr))
           [] script.stops = "MyGeotabException" ->
                DsReturn(trips, c, Append(tripCalls, stopCall))
           [] OTHER ->
                DsRaise(script.stops, c, Append(tripCalls, stopCall))

Docker_trips_get(auth, vendor, script, include_non_trip_data) ==
    CASE script.get = "ok" ->
            Docker_trips_stops(
                FormatAll("trip", script.data),
                [i \in 1..script.nstops |-> [kind |-> "stop", active |-> FALSE]],
                vendor \o AddressCalls(Len(script.data), 2, script.addr),
                VCall("get", "NonTripActivity", script.stops, auth.client.authed),
                auth.client, script, include_non_trip_data)
      [] script.get = "MyGeotabException" ->
            DsReturn(<<>>, auth.client, vendor)
      [] OTHER ->
            DsRaise(script.get, auth.client, vendor)

Docker_trips_on(auth, script, include_non_trip_data) ==
    IF auth.raised THEN auth
    ELSE IF ~auth.value THEN DsReturn(<<>>, auth.client, auth.vendor)
    ELSE Docker_trips_get(auth,
            Append(auth.vendor, VCall("get", "Trip", script.get, auth.client.authed)),
            script, include_non_trip_data)

\* GeotabClient.get_trips
Docker_get_trips(c, script, device_id, include_non_trip_data) ==
    Docker_trips_on(Docker_ensure_authenticated(c, script), script, include_non_trip_data)

(***************************************************************************)
(* Handlers.  `nows` holds the successive readings of datetime.now() of    *)
(* one call; a handler result records the client after it, the vendor      *)
(* calls, the data-source methods invoked and the number of clock reads.   *)
(***************************************************************************)
HReturn(value, ds, method, reads) ==
    [raised |-> FALSE, value |-> value, client |-> ds.client, vendor |-> ds.vendor,
     ds |-> <<method>>, reads |-> reads]
HRaise(ds, method, reads) ==
    [raised |-> TRUE, exc |-> ds.exc, msg |-> ds.msg, client |-> ds.client,
     vendor |-> ds.vendor, ds |-> <<method>>, reads |-> reads]
\* An exception raised before any data-source method was called.
HInvalid(exc, msg, c, reads) ==
    [raised |-> TRUE, exc |-> exc, msg |-> msg, client |-> c, vendor |-> <<>>,
     ds |-> <<>>, reads |-> reads]

IsActive(r) == r.active

\* The list comprehension [x for x in records if x.get('active', ...)],
\* applied when `filter` holds.
ActiveIf(filter, records) == IF filter THEN SelectSeq(records, IsActive) ELSE records

(***************************************************************************)
(* geotab-mcp-server/mcp_server/operations.py: GeotabOperations            *)
(***************************************************************************)
\* Fault: get_device_info counting one record more than it returns.
Fault_CountOffByOne(devices, nows) ==
    [operation |-> "get_device_info",
     result |-> [devices |-> devices, count |-> Len(devices) + 1, timestamp |-> nows[1]]]

Server_device_info_result(devices, nows) ==
    [operation |-> "get_device_info",
     result |-> [devices |-> devices, count |-> Len(devices), timestamp |-> nows[1]]]

Server_get_device_info_on(ds, nows, include_inactive) ==
    IF ds.raised
    THEN HRaise(ds, "get_devices", 0)
    ELSE HReturn(Server_device_info_result(
                    ActiveIf(~Truthy(include_inactive), ds.value), nows),
                 ds, "get_devices", 1)

\* get_device_info(self, include_inactive=False)
Server_get_device_info(c, script, nows, kwargs) ==
    Server_get_device_info_on(Server_get_devices(c, script), nows,
                              Get(kwargs, "include_inactive", Bool(FALSE)))

Server_get_device_location_on(ds, nows, device_id) ==
    IF ds.raised
    THEN HRaise(ds, "get_device_location", 0)
    ELSE IF ds.value.tag = "null"
    THEN HReturn([operation |-> "get_device_location",
                  result |-> [error |-> "Device location not found",
                              device_id |-> device_id,
                              timestamp |-> nows[1]]],
                 ds, "get_device_location", 1)
    ELSE HReturn([operation |-> "get_device_location",
                  result |-> [location |-> ds.value, timestamp |-> nows[1]]],
                 ds, "get_device_location", 1)

\* get_device_location(self, device_id)
Server_get_device_location(c, script, nows, kwargs) ==
    Server_get_device_location_on(
        Server_client_get_device_location(c, script, kwargs["device_id"]),
        nows, kwargs["device_id"])

Server_get_trip_data_on(ds, from_date, to_date, nows, device_id) ==
    IF ds.raised
    THEN HRaise(ds, "get_trip_data", 2)
    ELSE HReturn([operation |-> "get_trip_data",
                  result |-> [device_id |-> device_id,
                              from_date |-> from_date,
                              to_date |-> to_date,
                              trips |-> ds.value,
                              count |-> Len(ds.value),
                              timestamp |-> nows[3]]],
                 ds, "get_trip_data", 3)

\* from_date = datetime.now() - timedelta(days=days); to_date = datetime.now()
Server_trip_window(delta, c, script, nows, device_id) ==
    IF delta.raised
    THEN HInvalid(delta.exc, delta.msg, c, 1)
    ELSE Server_get_trip_data_on(Server_get_trip_data(c, script),
                                 nows[1] - delta.value, nows[2], nows, device_id)

\* get_trip_data(self, device_id, days=1): now() is read for from_date, then
\* again for to_date, then for the timestamp.
Server_handler_get_trip_data(c, script, nows, kwargs) ==
    Server_trip_window(Timedelta(Get(kwargs, "days", Num(1)), HoursPerDay),
                       c, script, nows, kwargs["device_id"])

Server_fault_result(faults, from_date, to_date, nows, device_id, active_only) ==
    [operation |-> "get_fault_data",
     result |-> [device_id |-> device_id,
                 from_date |-> from_date,
                 to_date |-> to_date,
                 faults |-> faults,
                 count |-> Len(faults),
                 active_only |-> active_only,
                 timestamp |-> nows[3]]]

Server_get_fault_data_on(ds, from_date, to_date, nows, device_id, active_only) ==
    IF ds.raised
    THEN HRaise(ds, "get_fault_data", 2)
    ELSE HReturn(Server_fault_result(ActiveIf(Truthy(active_only), ds.value),
                                     from_date, to_date, nows, device_id, active_only),
                 ds, "get_fault_data", 3)

Server_fault_window(delta, c, script, nows, device_id, active_only) ==
    IF delta.raised
    THEN HInvalid(delta.exc, delta.msg, c, 1)
    ELSE Server_get_fault_data_on(Server_client_get_fault_data(c, script),
                                  nows[1] - delta.value, nows[2], nows,
                                  device_id, active_only)

\* get_fault_data(self, device_id, days=7, active_only=False)
Server_handler_get_fault_data(c, script, nows, kwargs) ==
    Server_fault_window(Timedelta(Get(kwargs, "days", Num(7)), HoursPerDay),
                        c, script, nows, kwargs["device_id"],
                        Get(kwargs, "active_only", Bool(FALSE)))

\* The keyword parameters of each method of operation_map: all of them, and
\* those without a default.
Server_signature(operation) ==
    CASE operation = "get_device_info" ->
            [all |-> {"include_inactive"}, required |-> {}]
      [] operation = "get_device_location" ->
            [all |-> {"device_id"}, required |-> {"device_id"}]
      [] operation = "get_trip_data" ->
            [all |-> {"device_id", "days"}, required |-> {"device_id"}]
      [] operation = "get_fault_data" ->
            [all |-> {"device_id", "days", "active_only"}, required |-> {"device_id"}]

\* Python's binding of operation_method(geotab_ops, **parameters): an
\* undeclared keyword or a missing positional argument is a TypeError and
\* the method body does not run.
Server_bind_to(sig, operation, parameters) ==
    IF \E k \in DOMAIN parameters : k \notin sig.all
    THEN Raise("TypeError", operation \o "() got an unexpected keyword argument")
    ELSE IF \E k \in sig.required : k \notin DOMAIN parameters
    THEN Raise("TypeError", operation \o "() missing 1 required positional argument")
    ELSE Return(parameters)

Server_bind(operation, parameters) ==
    Server_bind_to(Server_signature(operation), operation, parameters)

\* geotab_ops.operation_map[operation](geotab_ops, **parameters)
Server_operation_method(operation, c, script, nows, kwargs) ==
    CASE operation = "get_device_info" -> Server_get_device_info(c, script, nows, kwargs)
      [] operation = "get_device_location" ->
            Server_get_device_location(c, script, nows, kwargs)
      [] operation = "get_trip_data" ->
            Server_handler_get_trip_data(c, script, nows, kwargs)
      [] operation = "get_fault_data" ->
            Server_handler_get_fault_data(c, script, nows, kwargs)

(***************************************************************************)
(* geotab-mcp-docker/mcp/operations.py: the handlers                       *)
(***************************************************************************)
RequiredMessage == "device_id is required"

Docker_get_devices_on(ds, nows) ==
    IF ds.raised
    THEN HRaise(ds, "get_devices", 0)
    ELSE HReturn([devices |-> ds.value, count |-> Len(ds.value), timestamp |-> nows[1]],
                 ds, "get_devices", 1)

\* handle_get_devices(parameters)
Docker_handle_get_devices(c, script, nows, parameters) ==
    Docker_get_devices_on(
        Docker_get_devices(c, script, Get(parameters, "include_inactive", Bool(FALSE))),
        nows)

\* Fault: handle_get_device_location returning the location without looking
\* whether there is one.
Fault_LocationUnchecked(ds, nows, device_id) ==
    IF ds.raised
    THEN HRaise(ds, "get_device_location", 0)
    ELSE HReturn([location |-> ds.value, timestamp |-> nows[1]],
                 ds, "get_device_location", 1)

Docker_get_device_location_on(ds, nows, device_id) ==
    IF ds.raised
    THEN HRaise(ds, "get_device_location", 0)
    ELSE IF ds.value.tag = "null"
    THEN HReturn([error |-> "Location not available for device",
                  device_id |-> device_id,
                  timestamp |-> nows[1]],
                 ds, "get_device_location", 1)
    ELSE HReturn([location |-> ds.value, timestamp |-> nows[1]],
                 ds, "get_device_location", 1)

\* Fault: handle_get_device_location without its presence check.
Fault_NoPresenceCheck(device_id, c, script, nows) ==
    Docker_get_device_location_on(
        Docker_client_get_device_location(c, script, device_id), nows, device_id)

Docker_location_checked(device_id, c, script, nows) ==
    IF ~Truthy(device_id)
    THEN HInvalid("ValueError", RequiredMessage, c, 0)
    ELSE Docker_get_device_location_on(
            Docker_client_get_device_location(c, script, device_id), nows, device_id)

\* handle_get_device_location(parameters)
Docker_handle_get_device_location(c, script, nows, parameters) ==
    Docker_location_checked(Get(parameters, "device_id", Null), c, script, nows)

\* Fault: handle_get_trips reading the clock again for to_date.
Fault_WindowReadTwice(ds, to_date, span, nows, device_id) ==
    IF ds.raised
    THEN HRaise(ds, "get_trips", 1)
    ELSE HReturn([device_id |-> device_id,
                  from_date |-> nows[1] - span,
                  to_date |-> nows[2],
                  trips |-> ds.value,
                  count |-> Len(ds.value),
                  timestamp |-> nows[2]],
                 ds, "get_trips", 2)

Docker_get_trips_on(ds, to_date, span, nows, device_id) ==
    IF ds.raised
    THEN HRaise(ds, "get_trips", 1)
    ELSE HReturn([device_id |-> device_id,
                  from_date |-> to_date - span,
                  to_date |-> to_date,
                  trips |-> ds.value,
                  count |-> Len(ds.value),
                  timestamp |-> nows[2]],
                 ds, "get_trips", 2)

Docker_trips_checked(device_id, days, include_stops, c, script, nows) ==
    IF ~Truthy(device_id)
    THEN HInvalid("ValueError", RequiredMessage, c, 0)
    ELSE IF days.raised
    THEN HInvalid(days.exc, days.msg, c, 0)
    ELSE Docker_get_trips_on(Docker_get_trips(c, script, device_id, include_stops),
                             nows[1], days.value * HoursPerDay, nows, device_id)

\* handle_get_trips(parameters): now() is read once for the window, once for
\* the timestamp.
Docker_handle_get_trips(c, script, nows, parameters) ==
    Docker_trips_checked(Get(parameters, "device_id", Null),
                         PyFloat(Get(parameters, "days", Num(1))),
                         Get(parameters, "include_stops", Bool(FALSE)),
                         c, script, nows)

Docker_get_fault_data_on(ds, to_date, span, nows, device_id) ==
    IF ds.raised
    THEN HRaise(ds, "get_fault_data", 1)
    ELSE HReturn([device_id |-> device_id,
                  from_date |-> to_date - span,
                  to_date |-> to_date,
                  faults |-> ds.value,
                  count |-> Len(ds.value),
                  timestamp |-> nows[2]],
                 ds, "get_fault_data", 2)

Docker_fault_checked(device_id, days, active_only, c, script, nows) ==
    IF ~Truthy(device_id)
    THEN HInvalid("ValueError", RequiredMessage, c, 0)
    ELSE IF days.raised
    THEN HInvalid(days.exc, days.msg, c, 0)
    ELSE Docker_get_fault_data_on(
            Docker_client_get_fault_data(c, script, Bool(~Truthy(active_only))),
            nows[1], days.value * HoursPerDay, nows, device_id)

\* Fault: handle_get_fault_data looking one day back when days is omitted.
Fault_FaultDaysDefaultOne(c, script, nows, parameters) ==
    Docker_fault_checked(Get(parameters, "device_id", Null),
                         PyFloat(Get(parameters, "days", Num(1))),
                         Get(parameters, "active_only", Bool(FALSE)),
                         c, script, nows)

\* handle_get_fault_data(parameters)
Docker_handle_get_fault_data(c, script, nows, parameters) ==
    Docker_fault_checked(Get(parameters, "device_id", Null),
                         PyFloat(Get(parameters, "days", Num(7))),
                         Get(parameters, "active_only", Bool(FALSE)),
                         c, script, nows)

Docker_get_status_data_on(ds, to_date, span, nows, device_id, diagnostic_id) ==
    IF ds.raised
    THEN HRaise(ds, "get_status_data", 1)
    ELSE HReturn([device_id |-> device_id,
                  diagnostic_id |-> diagnostic_id,
                  from_date |-> to_date - span,
                  to_date |-> to_date,
                  status_data |-> ds.value,
                  count |-> Len(ds.value),
                  timestamp |-> nows[2]],
                 ds, "get_status_data", 2)

Docker_status_checked(device_id, diagnostic_id, hours, c, script, nows) ==
    IF ~Truthy(device_id)
    THEN HInvalid("ValueError", RequiredMessage, c, 0)
    ELSE IF hours.raised
    THEN HInvalid(hours.exc, hours.msg, c, 0)
    ELSE Docker_get_status_data_on(
            Docker_client_get_status_data(c, script, diagnostic_id),
            nows[1], hours.value, nows, device_id, diagnostic_id)

\* handle_get_status_data(parameters)
Docker_handle_get_status_data(c, script, nows, parameters) ==
    Docker_status_checked(Get(parameters, "device_id", Null),
                          Get(parameters, "diagnostic_id", Null),
                          PyFloat(Get(parameters, "hours", Num(1))),
                          c, script, nows)

\* OPERATION_HANDLERS[operation](parameters)
Docker_handler(operation, c, script, nows, parameters) ==
    CASE operation = "get_devices" ->
            Docker_handle_get_devices(c, script, nows, parameters)
      [] operation = "get_device_location" ->
            Docker_handle_get_device_location(c, script, nows, parameters)
      [] operation = "get_trips" ->
            Docker_handle_get_trips(c, script, nows, parameters)
      [] operation = "get_fault_data" ->
            Docker_handle_get_fault_data(c, script, nows, parameters)
      [] operation = "get_status_data" ->
            Docker_handle_get_status_data(c, script, nows, parameters)

\* execute_operation(operation, parameters): the handlers run and the log
\* lines written are added to what the handler yields.
Executed(h, handlers, log) == h @@ [handlers |-> handlers, log |-> log]

LogRec(level, event) == [level |-> level, event |-> event]

\* Fault: execute_operation calling the handler again after it failed.
Fault_Retry(h, operation) ==
    Executed(h, IF h.raised THEN <<operation, operation>> ELSE <<operation>>,
             <<LogRec("info", "Executing operation")>>)

Docker_execute_logged(h, operation) ==
    Executed(h, <<operation>>,
             IF h.raised
             THEN <<LogRec("info", "Executing operation"),
                    LogRec("error", "Error executing operation")>>
             ELSE <<LogRec("info", "Executing operation")>>)

Docker_execute_operation(operation, c, script, nows, parameters) ==
    IF operation \notin Range(Docker_OPERATION_HANDLERS)
    THEN Executed(HInvalid("ValueError", "Unknown operation: " \o operation, c, 0),
                  <<>>, <<>>)
    ELSE Docker_execute_logged(Docker_handler(operation, c, script, nows, parameters),
                               operation)

(***************************************************************************)
(* What one call on /mcp yields: the response, the client afterwards and   *)
(* what happened on the way.                                               *)
(***************************************************************************)
Outcome(resp, h, handlers, log) ==
    [resp |-> resp, client |-> h.client, vendor |-> h.vendor, ds |-> h.ds,
     handlers |-> handlers, reads |-> h.reads, log |-> log,
     raised |-> IF h.raised THEN h.exc ELSE "none"]

Direct(resp, c, log) ==
    [resp |-> resp, client |-> c, vendor |-> <<>>, ds |-> <<>>,
     handlers |-> <<>>, reads |-> 0, log |-> log, raised |-> "none"]

\* request_type == name, for the JSON value under "type".
IsType(v, name) == v.tag = "str" /\ v.s = name

(***************************************************************************)
(* geotab-mcp-server/mcp_server/server.py                                  *)
(***************************************************************************)
Server_received == LogRec("info", "Received MCP request")

\* Fault: a discover response that leaves out the first catalog entry.
Fault_PartialCatalog(req, c) ==
    Direct(MCPDiscoverResponse(MCP_VERSION, Tail(Server_OPERATIONS)), c,
           <<Server_received, LogRec("info", "Processing discover request")>>)

\* handle_discover(request)
Server_handle_discover(req, c) ==
    Direct(MCPDiscoverResponse(MCP_VERSION, Server_OPERATIONS), c,
           <<Server_received, LogRec("info", "Processing discover request")>>)

\* Fault: an execute result built although the method raised.
Fault_ResultFromFailure(h, operation, handlers) ==
    Outcome(MCPExecuteResponse(MCP_VERSION, operation, <<>>), h, handlers,
            <<Server_received, LogRec("info", "Processing execute request")>>)

\* The try block of handle_execute, once the method has run or failed.
Server_handle_execute_result(h, operation, handlers) ==
    IF ~h.raised
    THEN Outcome(MCPExecuteResponse(MCP_VERSION, operation, h.value.result),
                 h, handlers,
                 <<Server_received, LogRec("info", "Processing execute request")>>)
    ELSE IF IsInstance(h.exc, "TypeError")
    THEN Outcome(MCPErrorResponse(MCP_VERSION, "Invalid parameters",
                                  [message |-> h.msg]),
                 h, handlers,
                 <<Server_received, LogRec("info", "Processing execute request"),
                   LogRec("error", "Parameter error")>>)
    ELSE Outcome(MCPErrorResponse(MCP_VERSION, "Operation execution failed",
                                  [message |-> h.msg]),
                 h, handlers,
                 <<Server_received, LogRec("info", "Processing execute request"),
                   LogRec("error", "Error executing operation")>>)

Server_handle_execute_bound(kwargs, operation, c, script, nows) ==
    IF kwargs.raised
    THEN Server_handle_execute_result(HInvalid(kwargs.exc, kwargs.msg, c, 0),
                                      operation, <<>>)
    ELSE Server_handle_execute_result(
            Server_operation_method(operation, c, script, nows, kwargs.value),
            operation, <<operation>>)

\* handle_execute(request)
Server_handle_execute(req, c, script, nows) ==
    IF req.operation \notin Range(Server_operation_map)
    THEN Direct(MCPErrorResponse(MCP_VERSION, "Unknown operation",
                                 [requested_operation |-> req.operation,
                                  available_operations |-> Server_operation_map]),
                c, <<Server_received, LogRec("info", "Processing execute request")>>)
    ELSE Server_handle_execute_bound(Server_bind(req.operation, req.parameters),
                                     req.operation, c, script, nows)

Server_invalid_format(c) ==
    Direct(MCPErrorResponse(MCP_VERSION, "Invalid request format",
                            [validation_errors |-> "validation error"]),
           c, <<Server_received, LogRec("error", "Validation error")>>)

\* The const=True of the request models: type must equal the constant.
Server_discover_checked(req, c) ==
    IF req.raised \/ req.value.type # "discover"
    THEN Server_invalid_format(c)
    ELSE Server_handle_discover(req.value, c)

\* Fault: an execute request refused unless its version is the server's.
Fault_VersionGate(req, c, script, nows) ==
    IF req.raised \/ req.value.type # "execute" \/ req.value.version # MCP_VERSION
    THEN Server_invalid_format(c)
    ELSE Server_handle_execute(req.value, c, script, nows)

Server_execute_checked(req, c, script, nows) ==
    IF req.raised \/ req.value.type # "execute"
    THEN Server_invalid_format(c)
    ELSE Server_handle_execute(req.value, c, script, nows)

\* Fault: mcp_endpoint with request.json() and body.get outside its try block.
Fault_DecodeOutsideTry(body, c, script, nows) ==
    CASE body.shape # "object" ->
            Direct([type |-> "unhandled", exc |-> "Exception"], c, <<>>)
      [] body.shape = "object" /\ IsType(body.type, "discover") ->
            Server_discover_checked(MCPDiscoverRequest(body), c)
      [] body.shape = "object" /\ IsType(body.type, "execute") ->
            Server_execute_checked(MCPExecuteRequest(body), c, script, nows)
      [] OTHER ->
            Direct(MCPErrorResponse(MCP_VERSION, "Invalid request type",
                                    [supported_types |-> <<"discover", "execute">>]),
                   c, <<Server_received>>)

\* mcp_endpoint(request).  A body that is not JSON makes request.json()
\* raise; one that is not an object has no .get; both fall to the last
\* except clause.
Server_mcp_endpoint(body, c, script, nows) ==
    CASE body.shape = "invalid_json" ->
            Direct(MCPErrorResponse(MCP_VERSION, "Server error",
                                    [message |-> "Expecting value"]),
                   c, <<LogRec("error", "Error processing request")>>)
      [] body.shape = "array" ->
            Direct(MCPErrorResponse(MCP_VERSION, "Server error",
                                    [message |-> "'list' object has no attribute 'get'"]),
                   c, <<Server_received, LogRec("error", "Error processing request")>>)
      [] body.shape = "object" /\ IsType(body.type, "discover") ->
            Server_discover_checked(MCPDiscoverRequest(body), c)
      [] body.shape = "object" /\ IsType(body.type, "execute") ->
            Server_execute_checked(MCPExecuteRequest(body), c, script, nows)
      [] OTHER ->
            Direct(MCPErrorResponse(MCP_VERSION, "Invalid request type",
                                    [supported_types |-> <<"discover", "execute">>]),
                   c, <<Server_received>>)

(***************************************************************************)
(* mcp/server.py                                                           *)
(***************************************************************************)
Docker_received == LogRec("info", "Received MCP request")

Docker_invalid_discover(msg, c) ==
    Direct(MCPErrorResponse(MCP_VERSION, "Invalid discover request", [message |-> msg]),
           c, <<Docker_received, LogRec("error", "Error handling discover request")>>)

\* Fault: a discover response that depends on the data-source session.
Fault_CatalogBySession(req, c) ==
    IF req.raised
    THEN Docker_invalid_discover(req.msg, c)
    ELSE Direct(MCPDiscoverResponse(MCP_VERSION,
                    IF c.authed THEN Tail(Docker_OPERATIONS) ELSE Docker_OPERATIONS),
                c, <<Docker_received>>)

Docker_discover_checked(req, c) ==
    IF req.raised
    THEN Docker_invalid_discover(req.msg, c)
    ELSE IF req.value.type # "discover"
    THEN Docker_invalid_discover("Type must be 'discover'", c)
    ELSE Direct(MCPDiscoverResponse(MCP_VERSION, Docker_OPERATIONS), c,
                <<Docker_received>>)

\* handle_discover(body)
Docker_handle_discover(body, c) == Docker_discover_checked(MCPDiscoverRequest(body), c)

\* Fault: handle_execute without its except clauses.
Fault_Propagate(e, operation) ==
    IF ~e.raised
    THEN Outcome(MCPExecuteResponse(MCP_VERSION, operation, e.value),
                 e, e.handlers, <<Docker_received>> \o e.log)
    ELSE Outcome([type |-> "unhandled", exc |-> e.exc], e, e.handlers,
                 <<Docker_received>> \o e.log)

\* The inner try block of handle_execute.
Docker_handle_execute_result(e, operation) ==
    IF ~e.raised
    THEN Outcome(MCPExecuteResponse(MCP_VERSION, operation, e.value),
                 e, e.handlers, <<Docker_received>> \o e.log)
    ELSE IF IsInstance(e.exc, "ValueError")
    THEN Outcome(MCPErrorResponse(MCP_VERSION, "Operation error", [message |-> e.msg]),
                 e, e.handlers,
                 <<Docker_received>> \o e.log \o <<LogRec("error", "Operation error")>>)
    ELSE Outcome(MCPErrorResponse(MCP_VERSION, "Operation execution failed",
                                  [message |-> e.msg]),
                 e, e.handlers,
                 <<Docker_received>> \o e.log \o
                 <<LogRec("error", "Error executing operation")>>)

Docker_invalid_execute(msg, c) ==
    Direct(MCPErrorResponse(MCP_VERSION, "Invalid execute request", [message |-> msg]),
           c, <<Docker_received, LogRec("error", "Error handling execute request")>>)

Docker_execute_checked(req, c, script, nows) ==
    IF req.raised
    THEN Docker_invalid_execute(req.msg, c)
    ELSE IF req.value.type # "execute"
    THEN Docker_invalid_execute("Type must be 'execute'", c)
    ELSE Docker_handle_execute_result(
            Docker_execute_operation(req.value.operation, c, script, nows,
                                     req.value.parameters),
            req.value.operation)

\* handle_execute(body)
Docker_handle_execute(body, c, script, nows) ==
    Docker_execute_checked(MCPExecuteRequest(body), c, script, nows)

\* mcp_endpoint(request)
Docker_mcp_endpoint(body, c, script, nows) ==
    CASE body.shape = "invalid_json" ->
            Direct(MCPErrorResponse(MCP_VERSION, "Invalid JSON",
                                    [message |-> "Request body is not valid JSON"]),
                   c, <<LogRec("error", "Invalid JSON in request body")>>)
      [] body.shape = "array" ->
            Direct(MCPErrorResponse(MCP_VERSION, "Server error",
                                    [message |-> "'list' object has no attribute 'get'"]),
                   c, <<Docker_received, LogRec("error", "Error processing request")>>)
      [] body.shape = "object" /\ IsType(body.type, "discover") ->
            Docker_handle_discover(body, c)
      [] body.shape = "object" /\ IsType(body.type, "execute") ->
            Docker_handle_execute(body, c, script, nows)
      [] OTHER ->
            Direct(MCPErrorResponse(MCP_VERSION, "Invalid request type",
                                    [message |-> "Unsupported request type: " \o
                                                 PyStr(body.type)]),
                   c, <<Docker_received>>)

\* The /mcp endpoint of the deployed variant.
Endpoint(v, body, c, script, nows) ==
    IF v = "server"
    THEN Server_mcp_endpoint(body, c, script, nows)
    ELSE Docker_mcp_endpoint(body, c, script, nows)

(***************************************************************************)
(* The requests a client may send.                                         *)
(***************************************************************************)
NoParameters == [tag |-> "absent"]
Dict(map) == [tag |-> "dict", map |-> map]

\* A request body: its JSON shape and, for an object, the values under the
\* keys the servers read (Absent for a missing key).
Body(shape, type, version, operation, parameters) ==
    [shape |-> shape, type |-> type, version |-> version,
     operation |-> operation, parameters |-> parameters]

Versions == {Str(MCP_VERSION), Str("2.0")}

UnknownName == "nonexistent_op"
ExtraKey == "bogus"

\* The values tried for a parameter.
ValuesFor(k) ==
    CASE k = "device_id" -> {Str("b1"), Str("")}
      [] k \in {"days", "hours"} -> {Num(2), Str("2"), Str("abc"), Null, List1}
      [] k \in {"include_inactive", "active_only", "include_stops"} ->
            {Bool(TRUE), Bool(FALSE)}
      [] k = "diagnostic_id" -> {Str("d1")}
      [] OTHER -> {Num(1)}

AllKeys ==
    {"device_id", "days", "hours", "include_inactive", "active_only",
     "include_stops", "diagnostic_id", ExtraKey}
AllValues == UNION {ValuesFor(k) : k \in AllKeys}

\* Every mapping of a subset of `keys` to values tried for them.
Mappings(keys) ==
    UNION {{m \in [ks -> AllValues] : \A k \in ks : m[k] \in ValuesFor(k)} :
           ks \in SUBSET keys}

\* The parameter names the catalog of variant v declares for op.
Declared(v, op) ==
    UNION {{Catalog(v)[i].parameters[j].name : j \in 1..Len(Catalog(v)[i].parameters)} :
           i \in {i \in 1..Len(Catalog(v)) : Catalog(v)[i].name = op}}

RequestNames(v) == CatalogNames(v) \cup Range(HandlerNames(v)) \cup {UnknownName}

\* Declared parameters, and an undeclared one where that keeps the set small.
RequestKeys(v, op) ==
    IF Cardinality(Declared(v, op)) <= 1
    THEN Declared(v, op) \cup {ExtraKey}
    ELSE Declared(v, op)

ExecuteBodies(v) ==
    {Body("object", Str("execute"), ver, Str(op), Dict(m)) :
        ver \in Versions, op \in RequestNames(v), m \in {<<>>}} \cup
    UNION {{Body("object", Str("execute"), ver, Str(op), Dict(m)) :
                ver \in Versions, m \in Mappings(RequestKeys(v, op))} :
           op \in RequestNames(v)}

DiscoverBodies ==
    {Body("object", Str("discover"), ver, Absent, NoParameters) :
        ver \in Versions \cup {Absent, Null, Num(1)}}

MalformedBodies ==
    {Body("invalid_json", Absent, Absent, Absent, NoParameters),
     Body("array", Absent, Absent, Absent, NoParameters),
     Body("object", Absent, Str(MCP_VERSION), Absent, NoParameters),
     Body("object", Str("subscribe"), Str(MCP_VERSION), Absent, NoParameters),
     Body("object", Num(1), Str(MCP_VERSION), Absent, NoParameters),
     Body("object", Str("execute"), Str(MCP_VERSION), Absent, NoParameters),
     Body("object", Str("execute"), Absent, Str("get_fault_data"), NoParameters),
     Body("object", Str("execute"), Str(MCP_VERSION), Str("get_fault_data"),
          [tag |-> "list"])}

Bodies(v) == ExecuteBodies(v) \cup DiscoverBodies \cup MalformedBodies

(***************************************************************************)
(* What the vendor API may do during one call.                             *)
(***************************************************************************)
AuthFailures == {"MyGeotabException", "Exception"}
GetFailures == {"MyGeotabException", "ValueError", "TypeError", "Exception"}
AddrOutcomes == {"nocoords", "ok", "MyGeotabException", "Exception"}
StopOutcomes == {"ok", "MyGeotabException", "Exception"}

DataSeqs == UNION {[1..n -> [active : BOOLEAN]] : n \in 0..MaxRecords}

Script(auth, get, data, addr, stops, nstops) ==
    [auth |-> auth, get |-> get, data |-> data, addr |-> addr,
     stops |-> stops, nstops |-> nstops]

SkipScript == Script("skip", "skip", <<>>, "skip", "skip", 0)

\* The script of the trial run that finds the vendor calls a request leads to.
DryScript == Script("ok", "ok", <<[active |-> TRUE]>>, "ok", "ok", 1)

\* The scripts that differ in a vendor call the request makes: `authOk`
\* are the outcomes of authenticate under which the query is made.
ScriptSet(authAll, authOk, hasGet, hasAddr, hasStops) ==
    {Script(a, "skip", <<>>, "skip", "skip", 0) :
        a \in IF hasGet THEN authAll \ authOk ELSE authAll}
    \cup {Script(a, g, <<>>, "skip", "skip", 0) :
            a \in IF hasGet THEN authOk ELSE {}, g \in GetFailures}
    \cup {Script(a, "ok", d, IF hasAddr THEN ad ELSE "skip", st,
                 IF st = "ok" THEN n ELSE 0) :
            a \in IF hasGet THEN authOk ELSE {},
            d \in DataSeqs,
            ad \in IF hasAddr THEN AddrOutcomes ELSE {"skip"},
            st \in IF hasStops THEN StopOutcomes ELSE {"skip"},
            n \in IF hasStops THEN 0..MaxStops ELSE {0}}

HasCall(vendor, api, entities) ==
    \E i \in 1..Len(vendor) : vendor[i].api = api /\ vendor[i].entity \in entities

ScriptsFrom(dry) ==
    IF dry.ds = <<>>
    THEN {SkipScript}
    ELSE ScriptSet(IF HasCall(dry.vendor, "authenticate", {""})
                   THEN {"ok"} \cup AuthFailures ELSE {"skip"},
                   IF HasCall(dry.vendor, "authenticate", {""})
                   THEN {"ok"} ELSE {"skip"},
                   HasCall(dry.vendor, "get",
                           {"Device", "Trip", "FaultData", "StatusData",
                            "DeviceStatusInfo"}),
                   HasCall(dry.vendor, "call",
                           {"GetAddressForCoordinate", "GetAddressFromCoordinates"}),
                   HasCall(dry.vendor, "get", {"NonTripActivity"}))

\* The scripts worth telling apart for a request of variant v.
ScriptsFor(v, body, c) == ScriptsFrom(Endpoint(v, body, c, DryScript, <<0, 0, 0>>))

\* Three successive readings of the clock from time t on.
Readings(t) ==
    {n \in [1..3 -> t..(t + MaxTick)] : n[1] <= n[2] /\ n[2] <= n[3]}

\* The last reading a call made, t when it made none.
LastRead(nows, reads, t) == IF reads = 0 THEN t ELSE nows[reads]

\* Readings the call did not make repeat the last one it made.
Exact(nows, reads, t) ==
    \A i \in 1..3 : i > reads => nows[i] = LastRead(nows, reads, t)

(***************************************************************************)
(* The state machine: a deployment of one variant serving calls one at a   *)
(* time.                                                                   *)
(***************************************************************************)
None == [type |-> "none"]

NoTrace ==
    [vendor |-> <<>>, ds |-> <<>>, handlers |-> <<>>, reads |-> 0, log |-> <<>>,
     raised |-> "none", before |-> [api |-> FALSE, authed |-> FALSE],
     script |-> SkipScript, nows |-> <<0, 0, 0>>]

Init ==
    /\ variant \in {"server", "docker"}
    /\ client = [api |-> FALSE, authed |-> FALSE]
    /\ clock = 0
    /\ pc = "idle"
    /\ request = None
    /\ response = None
    /\ trace = NoTrace
    /\ table = Catalog(variant)
    /\ loaded = Return(OPERATION_MAP(table))

\* The effect of one call whose endpoint yielded r.
Record(r, body, script, nows) ==
    /\ Exact(nows, r.reads, clock)
    /\ request' = body
    /\ response' = r.resp
    /\ client' = r.client
    /\ clock' = nows[3]
    /\ trace' = [vendor |-> r.vendor, ds |-> r.ds, handlers |-> r.handlers,
                 reads |-> r.reads, log |-> r.log, raised |-> r.raised,
                 before |-> client, script |-> script, nows |-> nows]
    /\ pc' = "done"
    /\ UNCHANGED <<variant, table, loaded>>

\* One POST /mcp on variant v, from the body read to the response built.
Call(v) ==
    /\ variant = v
    /\ pc = "idle"
    /\ clock + MaxTick <= MaxClock
    /\ \E body \in Bodies(v) :
         \E script \in ScriptsFor(v, body, client) :
           \E nows \in Readings(clock) :
             Record(Endpoint(v, body, client, script, nows), body, script, nows)

ServerCall == Call("server")
DockerCall == Call("docker")

\* The response goes back to the caller and the server is ready again.
Deliver ==
    /\ pc = "done"
    /\ pc' = "idle"
    /\ request' = None
    /\ response' = None
    /\ trace' = NoTrace
    /\ UNCHANGED <<variant, client, clock, table, loaded>>

Next == ServerCall \/ DockerCall \/ Deliver

Spec == Init /\ [][Next]_vars

(***************************************************************************)
(* Vocabulary of the properties.                                           *)
(***************************************************************************)
\* A call has been served and its response is at hand.
Done == pc = "done"

\* The call served was an execute request with a well-formed envelope.
ExecuteCall ==
    /\ Done
    /\ request.shape = "object"
    /\ IsType(request.type, "execute")
    /\ ~MCPExecuteRequest(request).raised

\* The call served was a discover request carrying a version string.
DiscoverCall ==
    /\ Done
    /\ request.shape = "object"
    /\ IsType(request.type, "discover")
    /\ request.version.tag = "str"

Op == PyStr(request.operation)
Params == ParametersOf(request.parameters)

\* The parameter specs the catalog of variant v holds for op.
ParamSpecs(v, op) ==
    UNION {Range(Catalog(v)[i].parameters) :
           i \in {i \in 1..Len(Catalog(v)) : Catalog(v)[i].name = op}}
Required(v, op) == {p.name : p \in {q \in ParamSpecs(v, op) : q.required}}
KindsOf(v, op, k) == {p.type : p \in {q \in ParamSpecs(v, op) : q.name = k}}

\* A JSON value of the declared kind.
OfKind(kind, val) ==
    CASE kind = "string" -> val.tag = "str"
      [] kind \in {"number", "integer"} -> val.tag = "num"
      [] kind = "boolean" -> val.tag = "bool"
      [] OTHER -> FALSE

\* A JSON value that can be converted to the declared kind.
Coercible(kind, val) ==
    CASE kind = "string" -> val.tag \in {"str", "num", "bool"}
      [] kind \in {"number", "integer"} ->
            \/ val.tag \in {"num", "bool"}
            \/ val.tag = "str" /\ val.s \in DOMAIN NumericStrings
      [] kind = "boolean" -> val.tag = "bool"
      [] OTHER -> FALSE

Known == Op \in CatalogNames(variant)
RequiredPresent == Required(variant, Op) \subseteq DOMAIN Params
AllDeclared == DOMAIN Params \subseteq Declared(variant, Op)
WellTyped ==
    /\ AllDeclared
    /\ \A k \in DOMAIN Params : \A kind \in KindsOf(variant, Op, k) : OfKind(kind, Params[k])
AllCoercible ==
    \A k \in DOMAIN Params : \A kind \in KindsOf(variant, Op, k) : Coercible(kind, Params[k])

\* The kind of an error response, by the except clause that built it: the
\* docker variant reports an unknown name and a rejected parameter under the
\* same error text and tells them apart by the message.
ErrorKind ==
    IF response.type # "error" THEN "none"
    ELSE CASE response.error = "Unknown operation" -> "UnknownOperation"
           [] response.error = "Invalid parameters" -> "InvalidParameters"
           [] response.error = "Operation error" ->
                IF response.details.message = "Unknown operation: " \o Op
                THEN "UnknownOperation"
                ELSE "InvalidParameters"
           [] response.error = "Operation execution failed" -> "HandlerError"
           [] OTHER -> "MalformedEnvelope"

\* A vendor call of the served call raised (value: the exception classes).
VendorFailures ==
    {trace.vendor[i].outcome : i \in 1..Len(trace.vendor)} \ {"ok", "nocoords", "skip"}

(***************************************************************************)
(* Properties.                                                             *)
(***************************************************************************)
\* C1: an execute request naming an operation that is not in the catalog is
\* answered, in both variants, by an error response whose error is exactly
\* "Unknown operation" and whose details.available_operations lists every
\* catalog name.
C1_UnknownOperationListsCatalog ==
    (ExecuteCall /\ ~Known) =>
        /\ response.type = "error"
        /\ response.error = "Unknown operation"
        /\ "available_operations" \in DOMAIN response.details
        /\ CatalogNames(variant) \subseteq Range(response.details.available_operations)

\* The docker variant answering execute("nonexistent_op", {}).
C1_DockerUnknownOperation ==
    /\ ExecuteCall
    /\ variant = "docker"
    /\ Op = UnknownName
    /\ Params = <<>>
    /\ response.error = "Operation error"
    /\ DOMAIN response.details = {"message"}

\* C2: whatever exception a handler or the data source under it raises, the
\* call ends with an error response; every call ends with a discover, an
\* execute or an error response and none with an exception leaving the
\* endpoint.
C2_ExceptionsBecomeErrors ==
    Done =>
        /\ response.type \in {"discover", "execute", "error"}
        /\ (trace.raised # "none" => response.type = "error")

\* A data-source method raised a plain Exception and the call returned an error.
C2_DataSourceRaised ==
    /\ ExecuteCall
    /\ trace.raised = "Exception"
    /\ trace.ds # <<>>
    /\ trace.handlers = <<Op>>
    /\ response.type = "error"

\* C3: when the handler of a known operation, called with every required
\* parameter present and every value of the declared kind, raises, the
\* response is an error of kind HandlerError with details.message, whatever
\* the class of the exception.
C3_HandlerFailureIsHandlerError ==
    (ExecuteCall /\ Known /\ RequiredPresent /\ WellTyped /\ trace.raised # "none") =>
        /\ ErrorKind = "HandlerError"
        /\ "message" \in DOMAIN response.details

\* The docker variant serving execute("get_devices", {}) while the vendor
\* query raises a ValueError.
C3_DockerValueErrorFromDataSource ==
    /\ ExecuteCall
    /\ variant = "docker"
    /\ Op = "get_devices"
    /\ Params = <<>>
    /\ trace.ds = <<"get_devices">>
    /\ trace.raised = "ValueError"
    /\ response.error = "Operation error"

\* C4: an execute request for a catalog operation that leaves out a parameter
\* the catalog marks required is answered by an error of kind
\* InvalidParameters, and the data source is not called.
C4_MissingRequiredIsInvalidParameters ==
    (ExecuteCall /\ Known /\ ~RequiredPresent) =>
        /\ response.type = "error"
        /\ ErrorKind = "InvalidParameters"
        /\ trace.ds = <<>>

\* execute("get_device_location", {}) answered, in the docker variant.
C4_LocationWithoutDeviceId ==
    /\ ExecuteCall
    /\ variant = "docker"
    /\ Op = "get_device_location"
    /\ Params = <<>>
    /\ ErrorKind = "InvalidParameters"

\* C5: with the required parameters present, a supplied value that cannot be
\* converted to its parameter's declared kind is answered by an error of kind
\* InvalidParameters, and a request whose values all can be converted is
\* executed when no vendor call fails.
C5_CoercionDecidesInvalidParameters ==
    (ExecuteCall /\ Known /\ RequiredPresent /\ AllDeclared
        /\ Truthy(Get(Params, "device_id", Str("b1")))) =>
        /\ ~AllCoercible => ErrorKind = "InvalidParameters"
        /\ (AllCoercible /\ VendorFailures = {}) => response.type = "execute"

\* The docker variant serving get_trips with days = null.
C5_DockerNullDays ==
    /\ ExecuteCall
    /\ variant = "docker"
    /\ Op = "get_trips"
    /\ DOMAIN Params = {"device_id", "days"}
    /\ Params["device_id"] = Str("b1")
    /\ Params["days"] = Null
    /\ ErrorKind = "HandlerError"
\* C6: an execute request naming a catalog entry with every required
\* parameter supplied and every supplied value of the declared kind, an
\* empty-string device_id included, is never answered by an UnknownOperation
\* or InvalidParameters error, whatever the data source does.
C6_ValidRequestNeverRejected ==
    (ExecuteCall /\ Known /\ RequiredPresent /\ WellTyped) =>
        ErrorKind \notin {"UnknownOperation", "InvalidParameters"}

\* The docker variant serving get_device_location with device_id = "".
C6_DockerEmptyDeviceId ==
    /\ ExecuteCall
    /\ variant = "docker"
    /\ Op = "get_device_location"
    /\ DOMAIN Params = {"device_id"}
    /\ Params["device_id"] = Str("")
    /\ response.error = "Operation error"
    /\ trace.ds = <<>>

\* C7: an execute call invokes at most one handler, the one registered for
\* the operation named, and at most one data-source method; a handler that
\* failed is not invoked again.
C7_HandlerAtMostOnce ==
    Done =>
        /\ Len(trace.handlers) <= 1
        /\ Len(trace.ds) <= 1
        /\ trace.handlers # <<>> => (ExecuteCall /\ trace.handlers = <<Op>>)

\* A handler was invoked, failed, and the response was built after that one
\* invocation.
C7_FailedHandlerNotRetried ==
    /\ ExecuteCall
    /\ trace.raised # "none"
    /\ trace.handlers = <<Op>>
    /\ Len(trace.ds) = 1
    /\ response.type = "error"

\* C8: when a vendor call or the authentication fails while an execute call
\* is served, the response is an error of kind HandlerError; an execute
\* result is returned only when no call of the data source failed.
C8_DataSourceFailureIsHandlerError ==
    (ExecuteCall /\ Known /\ RequiredPresent /\ WellTyped /\ VendorFailures # {}) =>
        ErrorKind = "HandlerError"

\* execute("get_devices", {}) returning an execute result with no devices
\* after the vendor refused the authentication.
C8_FailedAuthenticationReturnsResult ==
    /\ ExecuteCall
    /\ Op \in {"get_devices", "get_device_info"}
    /\ Params = <<>>
    /\ Len(trace.vendor) = 1
    /\ trace.vendor[1].api = "authenticate"
    /\ trace.vendor[1].outcome = "MyGeotabException"
    /\ response.type = "execute"
    /\ response.result.count = 0

\* C9: a discover request carrying a version string is answered by a discover
\* response whose operations are the catalog: one entry per operation, every
\* field and parameter spec as the catalog holds it, in the catalog's order.
C9_DiscoverReturnsCatalog ==
    DiscoverCall =>
        /\ response.type = "discover"
        /\ Len(response.operations) = Len(Catalog(variant))
        /\ \A i \in 1..Len(Catalog(variant)) :
              /\ response.operations[i].name = Catalog(variant)[i].name
              /\ response.operations[i].description = Catalog(variant)[i].description
              /\ response.operations[i].returns = Catalog(variant)[i].returns
              /\ response.operations[i].parameters = Catalog(variant)[i].parameters

\* A discover request with a version other than the server's was answered
\* with a catalog.
C9_DiscoverServed ==
    /\ DiscoverCall
    /\ request.version = Str("2.0")
    /\ response.type = "discover"
    /\ Len(response.operations) >= 4

\* C10: every response carries the server's version, and a request that
\* differs from the one served only in its version string gets, from the same
\* state and the same vendor behaviour, the same response.
C10_VersionIgnored ==
    Done =>
        /\ response.version = MCP_VERSION
        /\ request.version.tag = "str" =>
              \A ver \in Versions :
                 Endpoint(variant, [request EXCEPT !.version = ver], trace.before,
                          trace.script, trace.nows).resp = response

\* An execute request with a version other than the server's was executed.
C10_OtherVersionExecuted ==
    /\ ExecuteCall
    /\ request.version = Str("2.0")
    /\ response.type = "execute"
    /\ response.version = MCP_VERSION

\* The operations list of the first discover call of the process.
FirstDiscover ==
    Endpoint(variant, Body("object", Str("discover"), Str(MCP_VERSION), Absent, NoParameters),
             [api |-> FALSE, authed |-> FALSE], SkipScript, <<0, 0, 0>>).resp.operations

\* C11: after any sequence of discover and execute calls, succeeding or
\* failing, with any version strings, a discover call returns the operations
\* list the first discover call of the process returns, in the same order.
C11_DiscoverIdempotent ==
    DiscoverCall =>
        /\ response.type = "discover"
        /\ response.operations = FirstDiscover

\* A discover call served after an execute call that reached the vendor and
\* failed to open a session.
C11_DiscoverAfterFailedExecute ==
    /\ DiscoverCall
    /\ client.api
    /\ ~client.authed
    /\ clock > 0
    /\ response.type = "discover"

\* The operation names a discover response advertises.
Advertised == {response.operations[i].name : i \in 1..Len(response.operations)}

\* C12: in each variant the catalog and the handler table hold the same
\* names, each once: a discover response advertises exactly the names with a
\* handler, and an execute request is refused as an unknown operation exactly
\* when its name is not in the catalog.
C12_CatalogMatchesHandlers ==
    /\ CatalogNames(variant) = Range(HandlerNames(variant))
    /\ Cardinality(CatalogNames(variant)) = Len(Catalog(variant))
    /\ Cardinality(Range(HandlerNames(variant))) = Len(HandlerNames(variant))
    /\ DiscoverCall => Advertised = Range(HandlerNames(variant))
    /\ ExecuteCall => (ErrorKind = "UnknownOperation" <=> Op \notin CatalogNames(variant))
    /\ (ExecuteCall /\ trace.handlers # <<>>) => Op \in CatalogNames(variant)

\* The last catalog entry of the docker variant was executed by its handler.
C12_LastEntryExecuted ==
    /\ ExecuteCall
    /\ variant = "docker"
    /\ Op = Docker_OPERATIONS[Len(Docker_OPERATIONS)].name
    /\ trace.handlers = <<Op>>
    /\ response.type = "execute"

\* The terminal state of the call served, by what ran: a handler was
\* dispatched and returned, was dispatched and raised, or nothing was
\* dispatched (validation failed, or the call was a discover).
Dispatched == trace.handlers # <<>>
Terminal ==
    IF Dispatched
    THEN IF trace.raised = "none" THEN "Succeeded" ELSE "Failed"
    ELSE IF response.type = "discover" THEN "Succeeded" ELSE "ValidationFailed"

\* One response per call, fitting the terminal state.
PerCallStateMachine ==
    /\ response.type \in {"discover", "execute", "error"}
    /\ response.type = "execute" =>
          /\ ExecuteCall
          /\ trace.handlers = <<Op>>
          /\ Terminal = "Succeeded"
    /\ Terminal = "Failed" => response.type = "error"
    /\ Terminal = "ValidationFailed" =>
          /\ response.type = "error"
          /\ trace.ds = <<>>
          /\ trace.vendor = <<>>
    /\ Terminal = "Succeeded" => response.type \in {"discover", "execute"}

FreshClient == [api |-> FALSE, authed |-> FALSE]

\* The call served found a session opened by an earlier call.
SessionReused == trace.ds # <<>> /\ trace.script.auth = "skip"

\* The vendor behaviour of the call served, with `a` as what authenticate
\* does where the call served did not need it.
ScriptWithAuth(a) ==
    IF SessionReused THEN [trace.script EXCEPT !.auth = a] ELSE trace.script

\* The response the request served gets in a process that served no call.
FreshResponse(a) ==
    Endpoint(variant, request, FreshClient, ScriptWithAuth(a), trace.nows).resp

HttpStatus ==
    IF response.type \in {"discover", "execute", "error"} THEN 200 ELSE 500

\* The request served cannot be served: its body is not a JSON object, its
\* type is not supported, its envelope is invalid, or its operation failed.
RequestFails ==
    \/ request.shape # "object"
    \/ ~(IsType(request.type, "discover") \/ IsType(request.type, "execute"))
    \/ IsType(request.type, "discover") /\ MCPDiscoverRequest(request).raised
    \/ IsType(request.type, "execute") /\ MCPExecuteRequest(request).raised
    \/ trace.raised # "none"
    \/ IsType(request.type, "execute") /\ ~Known

\* C14: every call returns with HTTP 200, and a request that cannot be
\* served (invalid JSON, a JSON value that is not an object, an unsupported
\* type, an invalid envelope, an unknown or failing operation) is answered
\* with a body of type "error".
C14_ErrorsReportedInBand ==
    Done =>
        /\ HttpStatus = 200
        /\ RequestFails => response.type = "error"

\* A body that is not valid JSON, and one that is a JSON array, both
\* answered with an error body.
C14_UndecodableBodyAnswered ==
    /\ Done
    /\ request.shape \in {"invalid_json", "array"}
    /\ response.type = "error"
    /\ response.error \in {"Invalid JSON", "Server error"}
    /\ HttpStatus = 200

\* The call served was refused as a malformed envelope: an error that is
\* not about the operation or its parameters, no handler invoked, no catalog
\* returned.
RejectedAsMalformed ==
    /\ response.type = "error"
    /\ ErrorKind = "MalformedEnvelope"
    /\ trace.handlers = <<>>
    /\ trace.ds = <<>>

\* The type field is missing (the body may not even be an object) or is not
\* one of discover, execute.
TypeUnsupported ==
    \/ request.shape # "object"
    \/ ~(IsType(request.type, "discover") \/ IsType(request.type, "execute"))

LacksOperation ==
    /\ request.shape = "object"
    /\ IsType(request.type, "execute")
    /\ request.operation.tag = "absent"

\* A field of the envelope other than type is missing or of the wrong JSON
\* type: version, and for execute operation and parameters.
FieldInvalid ==
    /\ request.shape = "object"
    /\ \/ ~StrFieldOk(request.version)
       \/ /\ IsType(request.type, "execute")
          /\ ~StrFieldOk(request.operation) \/ ~DictFieldOk(request.parameters)

RequestedLookBack ==
    CASE Op = "get_trips" -> PyFloat(Get(Params, "days", Num(1))).value * HoursPerDay
      [] Op = "get_fault_data" -> PyFloat(Get(Params, "days", Num(7))).value * HoursPerDay
      [] Op = "get_status_data" -> PyFloat(Get(Params, "hours", Num(1))).value

\* C16: in the docker variant the from_date and to_date of a get_trips,
\* get_fault_data or get_status_data result are exactly the requested
\* look-back apart, however the clock advances during the call.
C16_DockerWindowExact ==
    (ExecuteCall /\ variant = "docker" /\ response.type = "execute"
        /\ Op \in {"get_trips", "get_fault_data", "get_status_data"}) =>
        response.result.to_date - response.result.from_date = RequestedLookBack

\* get_trips with days = 2 served while the clock advanced between the
\* handler's two readings.
C16_TripsWhileClockAdvances ==
    /\ ExecuteCall
    /\ variant = "docker"
    /\ Op = "get_trips"
    /\ Get(Params, "days", Null) = Num(2)
    /\ response.type = "execute"
    /\ trace.nows[1] < trace.nows[2]
    /\ response.result.timestamp > response.result.to_date
    /\ response.result.to_date - response.result.from_date = 2 * HoursPerDay

\* The operations whose result carries a list of records, and the list.
ListOperations ==
    {"get_devices", "get_device_info", "get_trips", "get_trip_data",
     "get_fault_data", "get_status_data"}
ResultRecords ==
    CASE Op \in {"get_devices", "get_device_info"} -> response.result.devices
      [] Op \in {"get_trips", "get_trip_data"} -> response.result.trips
      [] Op = "get_fault_data" -> response.result.faults
      [] Op = "get_status_data" -> response.result.status_data

\* What the data-source method of the call served returned to the handler.
DataSourceReturned ==
    CASE variant = "server" /\ Op = "get_device_info" ->
            Server_get_devices(trace.before, trace.script).value
      [] variant = "server" /\ Op = "get_trip_data" ->
            Server_get_trip_data(trace.before, trace.script).value
      [] variant = "server" /\ Op = "get_fault_data" ->
            Server_client_get_fault_data(trace.before, trace.script).value
      [] variant = "docker" /\ Op = "get_devices" ->
            Docker_get_devices(trace.before, trace.script,
                               Get(Params, "include_inactive", Bool(FALSE))).value
      [] variant = "docker" /\ Op = "get_trips" ->
            Docker_get_trips(trace.before, trace.script, Params["device_id"],
                             Get(Params, "include_stops", Bool(FALSE))).value
      [] variant = "docker" /\ Op = "get_fault_data" ->
            Docker_client_get_fault_data(trace.before, trace.script,
                                         Get(Params, "active_only", Bool(FALSE))).value
      [] variant = "docker" /\ Op = "get_status_data" ->
            Docker_client_get_status_data(trace.before, trace.script,
                                          Get(Params, "diagnostic_id", Null)).value

\* No handler-side filter applies to the call served: only the server
\* variant's handlers filter, get_device_info unless include_inactive and
\* get_fault_data when active_only.
NoFilterApplies ==
    \/ variant = "docker"
    \/ Op = "get_trip_data"
    \/ Op = "get_device_info" /\ Truthy(Get(Params, "include_inactive", Bool(FALSE)))
    \/ Op = "get_fault_data" /\ ~Truthy(Get(Params, "active_only", Bool(FALSE)))

\* C17: the count of a list-returning operation's result is the length of
\* the list in the same result, and without a handler-side filter the list
\* is what the data source returned, record for record.
C17_CountIsListLength ==
    (ExecuteCall /\ response.type = "execute" /\ Op \in ListOperations) =>
        /\ response.result.count = Len(ResultRecords)
        /\ NoFilterApplies => ResultRecords = DataSourceReturned

\* A trips call of the docker variant, stops included, returning as many
\* records as the vendor gave trips and stops.
C17_TripsAndStopsCounted ==
    /\ ExecuteCall
    /\ variant = "docker"
    /\ Op = "get_trips"
    /\ Truthy(Get(Params, "include_stops", Bool(FALSE)))
    /\ response.type = "execute"
    /\ trace.script.stops = "ok"
    /\ response.result.count = MaxRecords + MaxStops
    /\ Len(response.result.trips) = MaxRecords + MaxStops

\* The data-source client held a session when the call served began.
SessionBefore == trace.before.api /\ trace.before.authed

AllParamSpecs(operations) ==
    UNION {Range(operations[i].parameters) : i \in 1..Len(operations)}

\* C19: in every catalog entry of both variants, and in every entry a
\* discover response carries, a parameter spec with required true has a null
\* default.
C19_RequiredHasNoDefault ==
    /\ \A v \in {"server", "docker"} :
          \A p \in AllParamSpecs(Catalog(v)) : p.required => p.default = Null
    /\ (DiscoverCall /\ response.type = "discover") =>
          \A p \in AllParamSpecs(response.operations) : p.required => p.default = Null

\* A discover response carrying required parameters, all with a null default,
\* next to optional ones that have a default.
C19_RequiredSpecsAdvertised ==
    /\ DiscoverCall
    /\ response.type = "discover"
    /\ \E p \in AllParamSpecs(response.operations) :
          p.required /\ p.name = "device_id" /\ p.default = Null
    /\ \E p \in AllParamSpecs(response.operations) : ~p.required /\ p.default # Null

\* C20: in every catalog entry a discover response carries, in both
\* variants, the type of every parameter spec is one of string, number,
\* boolean.
C20_ParameterKindsFromTheThree ==
    (DiscoverCall /\ response.type = "discover") =>
        \A p \in AllParamSpecs(response.operations) :
            p.type \in {"string", "number", "boolean"}

\* The server variant's discover response advertising days as an integer.
C20_ServerAdvertisesInteger ==
    /\ DiscoverCall
    /\ variant = "server"
    /\ response.type = "discover"
    /\ \E p \in AllParamSpecs(response.operations) :
          p.name = "days" /\ p.type = "integer"


(***************************************************************************)
(* Start-up: the import of the operations module builds the name map from  *)
(* the operation table.  The specification Startup draws the table from    *)
(* bounded tables, duplicates included, and imports the module.            *)
(***************************************************************************)
Redefined(op) == [op EXCEPT !.returns = "Redefined"]
TableEntries ==
    {Docker_OPERATIONS[i] : i \in 1..2} \cup
    {Redefined(Docker_OPERATIONS[i]) : i \in 1..2}
Tables == UNION {[1..n -> TableEntries] : n \in 0..MaxTable}

StartupInit ==
    /\ variant = "docker"
    /\ client = [api |-> FALSE, authed |-> FALSE]
    /\ clock = 0
    /\ pc = "import"
    /\ request = None
    /\ response = None
    /\ trace = NoTrace
    /\ table \in Tables
    /\ loaded = None

\* import mcp.operations: the module body runs the dict comprehension.
Import ==
    /\ pc = "import"
    /\ loaded' = Return(OPERATION_MAP(table))
    /\ pc' = "idle"
    /\ UNCHANGED <<variant, client, clock, request, response, trace, table>>

StartupNext == Import

Startup == StartupInit /\ [][StartupNext]_vars

Imported == pc = "idle" /\ loaded # None
HasDuplicateNames(operations) ==
    \E i, j \in 1..Len(operations) :
        i # j /\ operations[i].name = operations[j].name
Kept(map) == {map[name] : name \in DOMAIN map}

IsRequest(x) == "shape" \in DOMAIN x

\* .dict() of a request model: every field of the model.
RequestDict(m) ==
    IF "operation" \in DOMAIN m
    THEN Body("object", Str(m.type), Str(m.version), Str(m.operation),
              Dict(m.parameters))
    ELSE Body("object", Str(m.type), Str(m.version), Absent, NoParameters)

RequestDecoded(x) ==
    IF IsType(x.type, "execute") THEN MCPExecuteRequest(x) ELSE MCPDiscoverRequest(x)

RequestRoundTrip_on(m) ==
    IF m.raised THEN m ELSE Return(RequestDict(m.value))
RequestRoundTrip(x) == RequestRoundTrip_on(RequestDecoded(x))

\* Model(**x).dict() of a response envelope: a field left out takes its
\* default, a required field left out is a validation error.
ResponseRoundTrip(x) ==
    CASE x.type = "discover" /\ {"version", "operations"} \subseteq DOMAIN x ->
            Return(MCPDiscoverResponse(x.version,
                       [i \in 1..Len(x.operations) |-> MCPOperation(x.operations[i])]))
      [] x.type = "execute" /\ {"version", "operation", "result"} \subseteq DOMAIN x ->
            Return(MCPExecuteResponse(x.version, x.operation, x.result))
      [] x.type = "error" /\ {"version", "error"} \subseteq DOMAIN x ->
            Return(MCPErrorResponse(x.version, x.error,
                       IF "details" \in DOMAIN x THEN x.details ELSE Null))
      [] OTHER -> Raise("ValidationError", "validation error")

EnvelopeRoundTrip(x) ==
    IF IsRequest(x) THEN RequestRoundTrip(x) ELSE ResponseRoundTrip(x)

\* The envelopes tried.
ParameterDicts ==
    {[name |-> "days", type |-> "number", description |-> "Number of days",
      required |-> FALSE, default |-> Num(1)],
     [name |-> "device_id", type |-> "string", description |-> "ID of the device",
      required |-> TRUE, default |-> Null],
     [name |-> "device_id", type |-> "string", description |-> "ID of the device",
      required |-> TRUE],
     [name |-> "days", type |-> "number", description |-> "Number of days"]}
OperationDicts ==
    {[name |-> "get_trips", description |-> "Get trips", parameters |-> <<p>>,
      returns |-> "List of trips"] : p \in ParameterDicts} \cup
    {[name |-> "get_devices", description |-> "Get devices", parameters |-> <<>>,
      returns |-> "List of devices"],
     [name |-> "get_devices", description |-> "Get devices",
      returns |-> "List of devices"]}
OperationLists ==
    {<<>>} \cup {<<o>> : o \in OperationDicts} \cup
    {<<o1, o2>> : o1 \in OperationDicts, o2 \in OperationDicts}
ResultDicts == {<<>>, [count |-> 0], [error |-> "Device location not found"]}
DetailDicts == {Null, [message |-> "boom"]}
ResponseEnvelopes ==
    {[type |-> "discover", version |-> MCP_VERSION, operations |-> os] :
        os \in OperationLists} \cup
    {[type |-> "execute", version |-> MCP_VERSION, operation |-> "get_devices",
      result |-> r] : r \in ResultDicts} \cup
    {[type |-> "execute", version |-> MCP_VERSION, operation |-> "get_devices",
      result |-> r, id |-> "7"] : r \in ResultDicts} \cup
    {[type |-> "error", version |-> MCP_VERSION, error |-> "Unknown operation",
      details |-> d] : d \in DetailDicts} \cup
    {[type |-> "error", version |-> MCP_VERSION, error |-> "Unknown operation"],
     [type |-> "error", version |-> MCP_VERSION]}
RequestEnvelopes ==
    {b \in Bodies("docker") : b.shape = "object"} \cup
    {Body("object", Str("execute"), ver, Str("get_devices"), NoParameters) :
        ver \in Versions}
Envelopes == RequestEnvelopes \cup ResponseEnvelopes

CodecInit ==
    /\ variant = "docker"
    /\ client = [api |-> FALSE, authed |-> FALSE]
    /\ clock = 0
    /\ pc = "decode"
    /\ request \in Envelopes
    /\ response = None
    /\ trace = NoTrace
    /\ table = Catalog(variant)
    /\ loaded = Return(OPERATION_MAP(table))

\* Model(**request).dict(): the envelope read is built and serialized.
RoundTrip ==
    /\ pc = "decode"
    /\ response' = EnvelopeRoundTrip(request)
    /\ pc' = "encoded"
    /\ UNCHANGED <<variant, client, clock, request, trace, table, loaded>>

CodecNext == RoundTrip

Codec == CodecInit /\ [][CodecNext]_vars

\* The wire shapes of the protocol: every field of the variant present, no
\* other field, version a string, parameters a mapping.
WellFormedParameter(p) ==
    DOMAIN p = {"name", "type", "description", "required", "default"}
WellFormedOperation(o) ==
    /\ DOMAIN o = {"name", "description", "parameters", "returns"}
    /\ \A j \in 1..Len(o.parameters) : WellFormedParameter(o.parameters[j])
WellFormedRequest(x) ==
    /\ x.shape = "object"
    /\ x.version.tag = "str"
    /\ \/ IsType(x.type, "discover") /\ x.operation = Absent /\ x.parameters = NoParameters
       \/ IsType(x.type, "execute") /\ x.operation.tag = "str" /\ x.parameters.tag = "dict"
WellFormedResponse(x) ==
    \/ /\ x.type = "discover"
       /\ DOMAIN x = {"type", "version", "operations"}
       /\ \A i \in 1..Len(x.operations) : WellFormedOperation(x.operations[i])
    \/ x.type = "execute" /\ DOMAIN x = {"type", "version", "operation", "result"}
    \/ x.type = "error" /\ DOMAIN x = {"type", "version", "error", "details"}
WellFormedEnvelope(x) ==
    IF IsRequest(x) THEN WellFormedRequest(x) ELSE WellFormedResponse(x)
Encoded == pc = "encoded"

\* C22: round trip.  The model built from a well-formed envelope x (Discover
\* and Execute requests; DiscoverResult, ExecuteResult and Error responses,
\* Error with details null included) serializes back to exactly x: no field
\* added, dropped or changed.
C22_RoundTrip ==
    (Encoded /\ WellFormedEnvelope(request)) =>
        /\ ~response.raised
        /\ response.value = request

\* An Error envelope whose details are null went through the round trip.
C22_ErrorWithNullDetailsRoundTripped ==
    /\ Encoded
    /\ ~IsRequest(request)
    /\ WellFormedEnvelope(request)
    /\ request.type = "error"
    /\ request.details = Null
    /\ response = Return(request)



(***************************************************************************)
(* What a log record says, by the statement that wrote it.                 *)
(***************************************************************************)
\* The record's text holds the operation name: the statements that format
\* {operation} or the whole body into it; "Operation error: {e}" holds it
\* only when the message e does.
NamesOperation(rec) ==
    \/ rec.event \in {"Received MCP request", "Executing operation",
                      "Processing execute request", "Error executing operation",
                      "Parameter error"}
    \/ /\ rec.event = "Operation error"
       /\ response.type = "error"
       /\ response.details.message = "Unknown operation: " \o Op

\* The outcome the record reports: the logger.error statements report an
\* error; every logger.info statement is written before the operation runs
\* and reports none.
OutcomeStated(rec) == IF rec.level = "error" THEN "error" ELSE "none"

CallOutcome == IF response.type = "execute" THEN "success" ELSE "error"

\* C23: every execute call, whatever its outcome, has appended at least one
\* log record that identifies the operation name and the outcome of the
\* call (success or error) by the time the response is returned.
C23_OutcomeLogged ==
    ExecuteCall =>
        \E i \in 1..Len(trace.log) :
            /\ NamesOperation(trace.log[i])
            /\ OutcomeStated(trace.log[i]) = CallOutcome

\* A successful execute call whose records name the operation but none
\* reports an outcome.
C23_SuccessWithoutOutcomeRecord ==
    /\ ExecuteCall
    /\ response.type = "execute"
    /\ Len(trace.log) > 0
    /\ \A i \in 1..Len(trace.log) :
          NamesOperation(trace.log[i]) /\ OutcomeStated(trace.log[i]) = "none"


\* C24: validation precedes dispatch to the data source.  An execute call
\* that ends in an unknown-operation or invalid-parameters error has invoked
\* no method of the data-source client.
C24_NoDataSourceCallBeforeRejection ==
    (ExecuteCall /\ ErrorKind \in {"UnknownOperation", "InvalidParameters"}) =>
        trace.ds = <<>>

\* A call answered with an invalid-parameters error after the handler had
\* called the data source, whose vendor query raised.
C24_RejectedAfterDataSourceCall ==
    /\ ExecuteCall
    /\ ErrorKind = "InvalidParameters"
    /\ Known /\ RequiredPresent /\ AllCoercible /\ AllDeclared
    /\ Len(trace.ds) > 0
    /\ VendorFailures # {}


\* The kind of a response to the request served: its type, or for an error
\* response the kind of the error (as ErrorKind tells it).
ResponseKind(resp) ==
    IF resp.type # "error" THEN resp.type
    ELSE CASE resp.error = "Unknown operation" -> "UnknownOperation"
           [] resp.error = "Invalid parameters" -> "InvalidParameters"
           [] resp.error = "Operation error" ->
                IF resp.details.message = "Unknown operation: " \o Op
                THEN "UnknownOperation"
                ELSE "InvalidParameters"
           [] resp.error = "Operation execution failed" -> "HandlerError"
           [] OTHER -> "MalformedEnvelope"

SharedOperations == CatalogNames("server") \cap CatalogNames("docker")
OtherVariant == IF variant = "server" THEN "docker" ELSE "server"

\* Two scripts describe the same vendor behaviour: they agree on every
\* vendor call both of them script.
SameOutcome(a, b) == a = "skip" \/ b = "skip" \/ a = b
SameBehaviour(s1, s2) ==
    /\ SameOutcome(s1.auth, s2.auth)
    /\ SameOutcome(s1.get, s2.get)
    /\ SameOutcome(s1.addr, s2.addr)
    /\ SameOutcome(s1.stops, s2.stops)
    /\ (s1.get = "ok" /\ s2.get = "ok") => s1.data = s2.data
    /\ (s1.stops = "ok" /\ s2.stops = "ok") => s1.nstops = s2.nstops

\* The vendor behaviours the other variant can meet on the request served
\* that are the behaviour of the call served.
OtherScripts ==
    {s \in ScriptsFor(OtherVariant, request, trace.before) :
        SameBehaviour(trace.script, s)}

\* The response of the other variant to the request served, on the same
\* session state and clock, under vendor behaviour s.
OtherResponse(s) ==
    Endpoint(OtherVariant, request, trace.before, s, trace.nows).resp

OmittedOptional ==
    {p \in ParamSpecs(variant, Op) : ~p.required /\ p.name \notin DOMAIN Params}

\* The request served with parameter p added at its advertised default.
WithDefault(p) ==
    [request EXCEPT !.parameters = Dict(Params @@ (p.name :> p.default))]

\* The response to the request served if p were supplied at its default.
ResponseWithDefault(p) ==
    Endpoint(variant, WithDefault(p), trace.before, trace.script, trace.nows).resp

\* C26: for every optional parameter of every catalog operation, the default
\* discover advertises is the value the handler uses when the request omits
\* the parameter: omitting it gives the same response as supplying the
\* advertised default.
C26_AdvertisedDefaultIsUsed ==
    ExecuteCall => \A p \in OmittedOptional : ResponseWithDefault(p) = response

\* A fault-data call without days has returned a result, and days is
\* advertised with default 7.
C26_FaultDataWithoutDays ==
    /\ ExecuteCall
    /\ Op = "get_fault_data"
    /\ response.type = "execute"
    /\ \E p \in OmittedOptional : p.name = "days" /\ p.default = Num(7)
    /\ Cardinality(OmittedOptional) = 2


\* The client holds a session: ensure_authenticated returns without
\* authenticating.
SessionOpen(c) == c.api /\ c.authed

\* The positions of the authenticate calls among the vendor calls of the
\* call served, and of those that succeeded.
AuthAttempts == {i \in 1..Len(trace.vendor) : trace.vendor[i].api = "authenticate"}
AuthSuccesses == {i \in AuthAttempts : trace.vendor[i].outcome = "ok"}

\* C27: authenticate is invoked only while no earlier authenticate has
\* succeeded.  The client, which starts without a session, holds one after
\* a call exactly if it held one before or an authenticate of the call
\* succeeded; a call that finds a session does not authenticate; a call
\* that finds none and reaches the data source attempts it first, whatever
\* earlier attempts did; no method call attempts it twice and none
\* authenticates after a success.
C27_AuthenticateOnlyUntilSuccess ==
    Done =>
        /\ SessionOpen(client) <=> (SessionOpen(trace.before) \/ AuthSuccesses # {})
        /\ SessionOpen(trace.before) => AuthAttempts = {}
        /\ (~SessionOpen(trace.before) /\ trace.ds # <<>>) => 1 \in AuthAttempts
        /\ Cardinality(AuthAttempts) <= Len(trace.ds)
        /\ \A i \in AuthSuccesses : \A j \in AuthAttempts : j <= i

\* After a call whose authenticate failed, a later call has authenticated
\* again.
C27_RetriedAfterFailure ==
    /\ Done
    /\ trace.before.api
    /\ ~trace.before.authed
    /\ AuthSuccesses # {}


\* The vendor data queries of the call served (api.get / api.call), by
\* position, and whether a session was open when query i was made.
DataQueries == {i \in 1..Len(trace.vendor) : trace.vendor[i].api \in {"get", "call"}}
AuthenticatedAt(i) ==
    SessionOpen(trace.before) \/ \E j \in AuthSuccesses : j < i
AuthRefused ==
    \E i \in AuthAttempts : trace.vendor[i].outcome = "MyGeotabException"

\* The result of the call served carries the data source's no-data value.
NoDataResult ==
    /\ response.type = "execute"
    /\ Op \in ListOperations => ResultRecords = <<>>
    /\ Op = "get_device_location" => "location" \notin DOMAIN response.result

\* C28: the client issues no vendor data query while it is unauthenticated.
\* Every query of a call is made on an open session, and a call whose
\* authentication is refused makes no query and gets the method's no-data
\* value (an empty list, no location).
C28_NoQueryWhileUnauthenticated ==
    Done =>
        /\ \A i \in DataQueries : AuthenticatedAt(i) /\ trace.vendor[i].authed
        /\ AuthRefused => (DataQueries = {} /\ NoDataResult)

\* A location call whose authentication the vendor refused: no query was
\* made and the result carries no location.
C28_RefusedLocationGivesNoData ==
    /\ ExecuteCall
    /\ Op = "get_device_location"
    /\ AuthRefused
    /\ Len(trace.ds) = 1
    /\ DataQueries = {}
    /\ response.type = "execute"
    /\ "location" \notin DOMAIN response.result


\* The call served is a location call whose handler called the data source
\* and got an answer, and the answer it got (Null when there is no location).
LocationAnswered ==
    /\ ExecuteCall
    /\ Op = "get_device_location"
    /\ trace.ds = <<"get_device_location">>
    /\ trace.raised = "none"
LocationReturned ==
    IF variant = "server"
    THEN Server_client_get_device_location(trace.before, trace.script,
                                           Params["device_id"]).value
    ELSE Docker_client_get_device_location(trace.before, trace.script,
                                           Params["device_id"]).value

\* C29: when the data source has no location for the device, the location
\* call returns an execute result, not an error envelope, whose result
\* carries an error text and the requested device_id and no location; the
\* result has a location exactly when the data source returned one.
C29_NoLocationIsAResult ==
    LocationAnswered =>
        /\ response.type = "execute"
        /\ response.operation = "get_device_location"
        /\ "location" \in DOMAIN response.result <=> LocationReturned # Null
        /\ LocationReturned # Null => response.result.location = LocationReturned
        /\ LocationReturned = Null =>
              /\ "error" \in DOMAIN response.result
              /\ response.result.error \in {"Device location not found",
                                            "Location not available for device"}
              /\ response.result.device_id = Params["device_id"]

\* The vendor had no status record for the device: the call returned a
\* result with the error text and the device_id.
C29_NoStatusRecord ==
    /\ LocationAnswered
    /\ trace.script.get = "ok"
    /\ trace.script.data = <<>>
    /\ LocationReturned = Null
    /\ response.type = "execute"
    /\ "error" \in DOMAIN response.result
    /\ response.result.device_id = Str("b1")


\* The look-back an execute request of the server variant asks for, in
\* hours: timedelta(days=days) of its days parameter or the method's default.
ServerLookBack ==
    CASE Op = "get_trip_data" -> Timedelta(Get(Params, "days", Num(1)), HoursPerDay).value
      [] Op = "get_fault_data" -> Timedelta(Get(Params, "days", Num(7)), HoursPerDay).value

\* C30: in the server variant the from_date and to_date that get_trip_data
\* and get_fault_data report for days = d are exactly d days apart, even
\* when the clock advances between the handler's readings of the time.
C30_ServerWindowExact ==
    (ExecuteCall /\ variant = "server" /\ response.type = "execute"
        /\ Op \in {"get_trip_data", "get_fault_data"}) =>
        response.result.to_date - response.result.from_date = ServerLookBack

\* get_trip_data with days = 2 served while the clock advanced between the
\* reading for from_date and the reading for to_date: the window reported
\* is longer than two days.
C30_WindowStretched ==
    /\ ExecuteCall
    /\ variant = "server"
    /\ Op = "get_trip_data"
    /\ Get(Params, "days", Null) = Num(2)
    /\ response.type = "execute"
    /\ trace.nows[1] < trace.nows[2]
    /\ response.result.from_date = trace.nows[1] - 2 * HoursPerDay
    /\ response.result.to_date = trace.nows[2]
    /\ response.result.to_date - response.result.from_date > 2 * HoursPerDay

=============================================================================
